---------------------------- MODULE Spec2Model ----------------------------
(***************************************************************************)
(* Model of kube-hc-monitor:                                               *)
(*   - CleanupUnusedResources (src/pkg/optimizer/optimizer.go), run by one *)
(*     or two callers against a cluster of ConfigMaps and pods;            *)
(*   - GetClusterHealth and its checks                                     *)
(*     (src/kubecostguard/internal/kubernetes/client.go).                  *)
(* Times are in hours.  A namespace/name key ("%s/%s") is modelled as the  *)
(* pair <<namespace, name>>: Kubernetes names hold no "/", so the          *)
(* formatted string determines the pair and the pair the string.           *)
(***************************************************************************)
EXTENDS Integers, Sequences, FiniteSets, TLC

(***************************************************************************)
(* Bounds of the model.                                                    *)
(***************************************************************************)
\* Invocations of CleanupUnusedResources one caller makes in a row.
MaxRuns == 2
\* Hours the clock may advance during a behaviour.
MaxTicks == 1
\* Nodes and pods the API server lists to the health checks.
MaxNodes == 3
MaxHealthPods == 2
\* Pods resident on the node whose cost is attributed.
MaxCostPods == 3
\* Ingress-controller deployments the API server lists to the network check.
MaxIngress == 2

(***************************************************************************)
(* Program constants.                                                      *)
(***************************************************************************)
\* 7*24*time.Hour, in hours.
RetentionHours == 168

Procs == {1, 2}

Namespaces == {"ns1", "ns2"}

PodRunning == "Running"
PodPending == "Pending"
PodSucceeded == "Succeeded"
PodFailed == "Failed"
PodUnknown == "Unknown"

Phases == {PodRunning, PodPending, PodSucceeded, PodFailed, PodUnknown}

(***************************************************************************)
(* The cluster's objects.  A ConfigMap is [ns, name, created]; a pod is    *)
(* [ns, name, phase, created, vols, envs], vols the ConfigMap names of its *)
(* volumes and envs those of its containers' env ConfigMapKeyRefs.         *)
(***************************************************************************)
CM(ns, name) == [ns |-> ns, name |-> name, created |-> -24]

\* The ConfigMaps that may exist, in the order the API server lists them.
CMOrder == <<CM("ns1", "a"), CM("ns1", "b"), CM("ns2", "a")>>

CMUniverse == {CMOrder[k] : k \in 1..Len(CMOrder)}

\* What a pod may reference: nothing, ConfigMap "a" by a volume, or by an env source.
RefShapes == { [vols |-> {}, envs |-> {}],
               [vols |-> {"a"}, envs |-> {}],
               [vols |-> {}, envs |-> {"a"}] }

\* Creation times: a pod aged exactly the retention threshold at time 0, or one hour more.
PodCreated == {-RetentionHours, -(RetentionHours + 1)}

Pod(ns, name, phase, created, refs) ==
    [ns |-> ns, name |-> name, phase |-> phase, created |-> created,
     vols |-> refs.vols, envs |-> refs.envs]

\* Pod identities, in the order the API server lists them.
PodIds == << [ns |-> "ns1", name |-> "p1"], [ns |-> "ns2", name |-> "p2"] >>

PodsOf(id) == { Pod(id.ns, id.name, ph, c, r) : ph \in Phases, c \in PodCreated, r \in RefShapes }

\* A cluster's pod set: each identity absent or present in one shape.
PodSets ==
    { a \cup b : a \in {{}} \cup {{x} : x \in PodsOf(PodIds[1])},
                 b \in {{}} \cup {{x} : x \in PodsOf(PodIds[2])} }

VARIABLES
    configMaps,       \* the ConfigMaps in the cluster
    pods,             \* the pods in the cluster
    now,              \* the clock
    pc,               \* per caller: where its invocation stands
    dryRun,           \* per caller: the dryRun argument
    cancelled,        \* per caller: whether its ctx is cancelled
    cmItems,          \* per caller: configMaps.Items
    podItems,         \* per caller: pods.Items
    configMapsInUse,  \* per caller: the keys of the configMapsInUse map
    idx,              \* per caller: the position of the running loop
    recommendations,  \* per caller: the recommendations slice
    deleteCalls,      \* per caller: the Delete calls issued, in order
    returned,         \* per caller: the list returned
    retNil,           \* per caller: whether the list returned is nil
    err,              \* per caller: the error returned, "" for nil
    runs,             \* per caller: invocations completed
    atStart,          \* per caller: the cluster and the clock when its invocation began
    prev,             \* per caller: what the previous invocation did
    hpc,              \* GetClusterHealth: the step it stands at
    health,           \* GetClusterHealth: the ClusterHealth it fills
    checksRun,        \* GetClusterHealth: the checks and passes it has called, in order
    hfailed,          \* GetClusterHealth: the checks that could not evaluate their category
    hret,             \* GetClusterHealth: "health" when it returned health, "nil" when nil
    herr,             \* GetClusterHealth: the error returned, "" for nil
    snap,             \* the cluster as the health checks and the collection list it
    issued,           \* the API requests issued by the read-side operations
    hruns,            \* GetClusterHealth: evaluations begun
    hprev,            \* GetClusterHealth: what the previous evaluation returned
    svcIdx,           \* checkNetworkHealth: the service its loop stands at, 0 outside the loop
    rpc,              \* GetClusterResources: the step it stands at
    rres,             \* GetClusterResources: what it returned
    report,           \* GenerateOptimizationReport: what it returned
    costIn,           \* cost computation: the pricing config, the node and its resident pods
    costOut           \* cost computation: its position, the prices, the node and pod costs

vars == <<configMaps, pods, now, pc, dryRun, cancelled, cmItems, podItems,
          configMapsInUse, idx, recommendations, deleteCalls, returned, retNil,
          err, runs, atStart, prev, hpc, health, checksRun, hfailed, hret, herr,
          snap, issued, hruns, hprev, svcIdx, rpc, rres, report, costIn, costOut>>

\* What CleanupUnusedResources never touches.
healthVars == <<hpc, health, checksRun, hfailed, hret, herr,
                snap, issued, hruns, hprev, svcIdx, rpc, rres, report, costIn, costOut>>

costVars == <<costIn, costOut>>

\* The state of GetClusterResources, of GenerateOptimizationReport and of the
\* cost computation.
collectVars == <<rpc, rres, report, costIn, costOut>>

(***************************************************************************)
(* The API server.                                                         *)
(***************************************************************************)
\* ConfigMaps("").List: the cluster's ConfigMaps in key order.
ListConfigMaps == SelectSeq(CMOrder, LAMBDA c : c \in configMaps)

RECURSIVE PodSeq(_)
PodSeq(k) ==
    IF k = 0 THEN <<>>
    ELSE LET here == { p \in pods : p.ns = PodIds[k].ns /\ p.name = PodIds[k].name }
         IN  PodSeq(k - 1) \o (IF here = {} THEN <<>> ELSE <<CHOOSE p \in here : TRUE>>)

\* Pods("").List: the cluster's pods in key order.
ListPods == PodSeq(Len(PodIds))

(***************************************************************************)
(* CleanupUnusedResources                                                  *)
(***************************************************************************)
\* A key that leaves the namespace out.
KeyNameOnly(ns, name) == <<"", name>>

\* fmt.Sprintf("%s/%s", ns, name)
Key(ns, name) == <<ns, name>>

\* Only a pod that has not terminated adds keys.
PodKeysUnlessTerminated(pod) ==
    IF pod.phase \in {PodFailed, PodSucceeded} THEN {}
    ELSE { Key(pod.ns, n) : n \in pod.vols } \cup { Key(pod.ns, n) : n \in pod.envs }

\* The keys the pod adds to configMapsInUse.
PodKeys(pod) ==
    { Key(pod.ns, n) : n \in pod.vols } \cup { Key(pod.ns, n) : n \in pod.envs }

RECURSIVE InUse(_)
InUse(items) ==
    IF items = <<>> THEN {}
    ELSE PodKeys(Head(items)) \cup InUse(Tail(items))

\* !configMapsInUse[key]
CMUnused(cm, inUse) == Key(cm.ns, cm.name) \notin inUse

\* time.Since(t)
Since(t) == now - t

\* A staleness test that takes the threshold itself as stale.
PodStaleFromThreshold(pod) ==
    /\ pod.phase = PodFailed \/ pod.phase = PodSucceeded
    /\ Since(pod.created) >= RetentionHours

\* The pod's phase is Failed or Succeeded and age > 7*24*time.Hour.
PodStale(pod) ==
    /\ pod.phase = PodFailed \/ pod.phase = PodSucceeded
    /\ Since(pod.created) > RetentionHours

CMRec(cm) ==
    [ResourceType |-> "ConfigMap", Namespace |-> cm.ns, Name |-> cm.name,
     Reason |-> "Not referenced by any pod", Age |-> Since(cm.created)]

\* A pod recommendation whose reason states the pod's age.
PodRecAgeInReason(pod) ==
    [ResourceType |-> "Pod", Namespace |-> pod.ns, Name |-> pod.name,
     Reason |-> <<"Failed/Completed pod older than 7 days (status: %s, age: %v)",
                  pod.phase, Since(pod.created)>>,
     Age |-> Since(pod.created)]

PodRec(pod) ==
    [ResourceType |-> "Pod", Namespace |-> pod.ns, Name |-> pod.name,
     Reason |-> <<"Failed/Completed pod older than 7 days (status: %s)", pod.phase>>,
     Age |-> Since(pod.created)]

\* A deletion guard that ignores dryRun.
ShouldDeleteAlways(dry) == TRUE

\* if !dryRun
ShouldDelete(dry) == ~dry

\* A Delete error that ends the loops.
AfterDeleteAbort(ok, next) == IF ok THEN next ELSE "return"

\* After a Delete call: its error is logged and the loop goes on to `next`.
AfterDelete(ok, next) == next

\* What the function returns on success.
ReturnValue(recs) == <<>>

\* Where the invocation goes once the loop at `stage` has handled `k` items.
After(stage, k, cms, ps) ==
    IF stage = "cmLoop" /\ k < Len(cms) THEN "cmLoop"
    ELSE IF (stage = "cmLoop" /\ Len(ps) > 0) \/ (stage = "podLoop" /\ k < Len(ps))
         THEN "podLoop"
         ELSE "return"

invVars == <<pc, dryRun, cancelled, cmItems, podItems, configMapsInUse, idx,
             recommendations, deleteCalls, returned, retNil, err, runs, atStart, prev>>

\* The caller invokes CleanupUnusedResources(ctx, clientset, dry).
Start(p, dry, limit) ==
    /\ UNCHANGED healthVars
    /\ pc[p] \in {"idle", "done"}
    /\ runs[p] < limit
    /\ prev' = [prev EXCEPT ![p] =
                    IF pc[p] = "done"
                    THEN [ran |-> TRUE, dryRun |-> dryRun[p], err |-> err[p],
                          recommendations |-> recommendations[p],
                          returned |-> returned[p], began |-> atStart[p].now]
                    ELSE @]
    /\ atStart' = [atStart EXCEPT ![p] =
                       [configMaps |-> configMaps, pods |-> pods, now |-> now]]
    /\ pc' = [pc EXCEPT ![p] = "listConfigMaps"]
    /\ dryRun' = [dryRun EXCEPT ![p] = dry]
    /\ cancelled' = [cancelled EXCEPT ![p] = FALSE]
    /\ cmItems' = [cmItems EXCEPT ![p] = <<>>]
    /\ podItems' = [podItems EXCEPT ![p] = <<>>]
    /\ configMapsInUse' = [configMapsInUse EXCEPT ![p] = {}]
    /\ idx' = [idx EXCEPT ![p] = 0]
    /\ recommendations' = [recommendations EXCEPT ![p] = <<>>]
    /\ deleteCalls' = [deleteCalls EXCEPT ![p] = <<>>]
    /\ returned' = [returned EXCEPT ![p] = <<>>]
    /\ retNil' = [retNil EXCEPT ![p] = FALSE]
    /\ err' = [err EXCEPT ![p] = ""]
    /\ UNCHANGED <<configMaps, pods, now, runs>>

\* A failed listing ends the invocation with the error and an empty list.
FailEmptyList(p, msg) ==
    /\ pc' = [pc EXCEPT ![p] = "done"]
    /\ returned' = [returned EXCEPT ![p] = <<>>]
    /\ retNil' = [retNil EXCEPT ![p] = FALSE]
    /\ err' = [err EXCEPT ![p] = msg]
    /\ runs' = [runs EXCEPT ![p] = @ + 1]

\* return nil, fmt.Errorf(...)
Fail(p, msg) ==
    /\ pc' = [pc EXCEPT ![p] = "done"]
    /\ returned' = [returned EXCEPT ![p] = <<>>]
    /\ retNil' = [retNil EXCEPT ![p] = TRUE]
    /\ err' = [err EXCEPT ![p] = msg]
    /\ runs' = [runs EXCEPT ![p] = @ + 1]

\* configMaps, err := clientset.CoreV1().ConfigMaps("").List(ctx, ...)
DoListConfigMaps(p) ==
    /\ UNCHANGED healthVars
    /\ pc[p] = "listConfigMaps"
    /\ \E apiOK \in BOOLEAN :
          IF apiOK /\ ~cancelled[p]
          THEN /\ cmItems' = [cmItems EXCEPT ![p] = ListConfigMaps]
               /\ pc' = [pc EXCEPT ![p] = "listPods"]
               /\ UNCHANGED <<returned, retNil, err, runs>>
          ELSE /\ Fail(p, "failed to list configmaps")
               /\ UNCHANGED cmItems
    /\ UNCHANGED <<configMaps, pods, now, dryRun, cancelled, podItems,
                   configMapsInUse, idx, recommendations, deleteCalls, atStart, prev>>

\* pods, err := clientset.CoreV1().Pods("").List(ctx, ...), then the
\* configMapsInUse map is built.
DoListPods(p) ==
    /\ UNCHANGED healthVars
    /\ pc[p] = "listPods"
    /\ \E apiOK \in BOOLEAN :
          IF apiOK /\ ~cancelled[p]
          THEN /\ podItems' = [podItems EXCEPT ![p] = ListPods]
               /\ configMapsInUse' = [configMapsInUse EXCEPT ![p] = InUse(ListPods)]
               /\ idx' = [idx EXCEPT ![p] = 0]
               /\ pc' = [pc EXCEPT ![p] =
                            IF Len(cmItems[p]) > 0 THEN "cmLoop"
                            ELSE After("cmLoop", 0, cmItems[p], ListPods)]
               /\ UNCHANGED <<returned, retNil, err, runs>>
          ELSE /\ Fail(p, "failed to list pods")
               /\ UNCHANGED <<podItems, configMapsInUse, idx>>
    /\ UNCHANGED <<configMaps, pods, now, dryRun, cancelled, cmItems,
                   recommendations, deleteCalls, atStart, prev>>

\* A Delete call of the clientset: it fails when ctx is cancelled, when the API
\* server fails it (apiOK false) or when the object is gone, and removes the
\* object otherwise.
DeleteOK(kind, ns, name, apiOK, p) ==
    /\ apiOK
    /\ ~cancelled[p]
    /\ IF kind = "ConfigMap"
       THEN \E c \in configMaps : c.ns = ns /\ c.name = name
       ELSE \E q \in pods : q.ns = ns /\ q.name = name

Call(kind, ns, name, ok, p) ==
    [kind |-> kind, ns |-> ns, name |-> name, ok |-> ok, ctxDone |-> cancelled[p]]

\* One iteration of "for _, cm := range configMaps.Items".
CmIter(p) ==
    /\ UNCHANGED healthVars
    /\ pc[p] = "cmLoop"
    /\ idx[p] < Len(cmItems[p])
    /\ LET cm == cmItems[p][idx[p] + 1]
           flag == CMUnused(cm, configMapsInUse[p])
           del == flag /\ ShouldDelete(dryRun[p])
       IN  /\ recommendations' = [recommendations EXCEPT ![p] =
                                     IF flag THEN Append(@, CMRec(cm)) ELSE @]
           /\ \E apiOK \in (IF del THEN BOOLEAN ELSE {TRUE}) :
                 LET ok == DeleteOK("ConfigMap", cm.ns, cm.name, apiOK, p)
                 IN  /\ deleteCalls' = [deleteCalls EXCEPT ![p] =
                                           IF del
                                           THEN Append(@, Call("ConfigMap", cm.ns, cm.name, ok, p))
                                           ELSE @]
                     /\ configMaps' = IF del /\ ok
                                      THEN { c \in configMaps : ~(c.ns = cm.ns /\ c.name = cm.name) }
                                      ELSE configMaps
                     /\ pc' = [pc EXCEPT ![p] =
                                  LET next == After("cmLoop", idx[p] + 1, cmItems[p], podItems[p])
                                  IN  IF del THEN AfterDelete(ok, next) ELSE next]
           /\ idx' = [idx EXCEPT ![p] =
                         IF After("cmLoop", @ + 1, cmItems[p], podItems[p]) = "cmLoop"
                         THEN @ + 1 ELSE 0]
    /\ UNCHANGED <<pods, now, dryRun, cancelled, cmItems, podItems, configMapsInUse,
                   returned, retNil, err, runs, atStart, prev>>

\* One iteration of "for _, pod := range pods.Items".
PodIter(p) ==
    /\ UNCHANGED healthVars
    /\ pc[p] = "podLoop"
    /\ idx[p] < Len(podItems[p])
    /\ LET pod == podItems[p][idx[p] + 1]
           flag == PodStale(pod)
           del == flag /\ ShouldDelete(dryRun[p])
       IN  /\ recommendations' = [recommendations EXCEPT ![p] =
                                     IF flag THEN Append(@, PodRec(pod)) ELSE @]
           /\ \E apiOK \in (IF del THEN BOOLEAN ELSE {TRUE}) :
                 LET ok == DeleteOK("Pod", pod.ns, pod.name, apiOK, p)
                 IN  /\ deleteCalls' = [deleteCalls EXCEPT ![p] =
                                           IF del
                                           THEN Append(@, Call("Pod", pod.ns, pod.name, ok, p))
                                           ELSE @]
                     /\ pods' = IF del /\ ok
                                THEN { q \in pods : ~(q.ns = pod.ns /\ q.name = pod.name) }
                                ELSE pods
                     /\ pc' = [pc EXCEPT ![p] =
                                  LET next == After("podLoop", idx[p] + 1, cmItems[p], podItems[p])
                                  IN  IF del THEN AfterDelete(ok, next) ELSE next]
           /\ idx' = [idx EXCEPT ![p] = @ + 1]
    /\ UNCHANGED <<configMaps, now, dryRun, cancelled, cmItems, podItems, configMapsInUse,
                   returned, retNil, err, runs, atStart, prev>>

\* return []CleanupRecommendation{}, nil
Return(p) ==
    /\ UNCHANGED healthVars
    /\ pc[p] = "return"
    /\ pc' = [pc EXCEPT ![p] = "done"]
    /\ returned' = [returned EXCEPT ![p] = ReturnValue(recommendations[p])]
    /\ retNil' = [retNil EXCEPT ![p] = FALSE]
    /\ err' = [err EXCEPT ![p] = ""]
    /\ runs' = [runs EXCEPT ![p] = @ + 1]
    /\ UNCHANGED <<configMaps, pods, now, dryRun, cancelled, cmItems, podItems,
                   configMapsInUse, idx, recommendations, deleteCalls, atStart, prev>>

\* The caller cancels the context of its running invocation.
Cancel(p) ==
    /\ UNCHANGED healthVars
    /\ pc[p] \notin {"idle", "done"}
    /\ ~cancelled[p]
    /\ cancelled' = [cancelled EXCEPT ![p] = TRUE]
    /\ UNCHANGED <<configMaps, pods, now, pc, dryRun, cmItems, podItems, configMapsInUse,
                   idx, recommendations, deleteCalls, returned, retNil, err, runs, atStart, prev>>

\* Another client of the API server creates a pod: a running pod that mounts
\* the ConfigMap "a" of its namespace.
CreatePod ==
    /\ \E k \in DOMAIN PodIds :
          /\ ~\E q \in pods : q.ns = PodIds[k].ns /\ q.name = PodIds[k].name
          /\ pods' = pods \cup { Pod(PodIds[k].ns, PodIds[k].name, PodRunning, now,
                                     [vols |-> {"a"}, envs |-> {}]) }
    /\ UNCHANGED <<configMaps, now>>
    /\ UNCHANGED invVars
    /\ UNCHANGED healthVars

\* An hour passes.
Tick ==
    /\ now < MaxTicks
    /\ now' = now + 1
    /\ UNCHANGED <<configMaps, pods>>
    /\ UNCHANGED invVars
    /\ UNCHANGED healthVars

(***************************************************************************)
(* GetClusterHealth                                                        *)
(* A node is [name, conditions], conditions a sequence of [type, status];  *)
(* a pod is [ns, name, nodeName, phase, containers], containers a sequence *)
(* of [restartCount, waiting] (waiting "" when State.Waiting is nil).      *)
(* Latencies are in milliseconds.  AverageLoad, a float the checks below   *)
(* never read, is left out.                                                *)
(***************************************************************************)
Max(a, b) == IF a > b THEN a ELSE b
Min(a, b) == IF a < b THEN a ELSE b

ConditionTrue == "True"
ConditionFalse == "False"

NodeReady == "Ready"
NodeMemoryPressure == "MemoryPressure"
NodeDiskPressure == "DiskPressure"
NodePIDPressure == "PIDPressure"
NodeNetworkUnavailable == "NetworkUnavailable"

ZeroNodeStatus ==
    [TotalNodes |-> 0, ReadyNodes |-> 0, MemoryPressureNodes |-> 0, DiskPressureNodes |-> 0,
     PIDPressureNodes |-> 0, NetworkUnavailableNodes |-> 0, NodeConditions |-> <<>>]

ZeroPodStatus ==
    [TotalPods |-> 0, RunningPods |-> 0, PendingPods |-> 0, SucceededPods |-> 0,
     FailedPods |-> 0, UnknownPods |-> 0, RestartingPods |-> 0, PodsPerNode |-> <<>>,
     CrashLoopingPods |-> <<>>]

ZeroControlPlaneStatus ==
    [APIServerHealthy |-> FALSE, ControllerHealthy |-> FALSE, SchedulerHealthy |-> FALSE,
     EtcdHealthy |-> FALSE, CoreDNSHealthy |-> FALSE, OverallHealthy |-> FALSE,
     APIServerLatency |-> 0]

ZeroNetworkStatus ==
    [CNIHealthy |-> FALSE, DNSResolutionOK |-> FALSE, ServiceEndpointsHealthy |-> FALSE,
     IngressHealthy |-> FALSE, NetworkPoliciesCount |-> 0]

ZeroResourceUsage == [ClusterCPUUsage |-> 0, ClusterMemoryUsage |-> 0]

\* health := &ClusterHealth{...}: every status at its zero value.
NewClusterHealth ==
    [NodeStatus |-> ZeroNodeStatus, PodStatus |-> ZeroPodStatus,
     ControlPlaneStatus |-> ZeroControlPlaneStatus, NetworkStatus |-> ZeroNetworkStatus,
     ResourceUsage |-> ZeroResourceUsage, ComponentStatuses |-> <<>>,
     NamespaceHealth |-> {}, HealthScore |-> 0, Issues |-> {}]

\* The comparison inverted: the types of the conditions whose status is not True.
RECURSIVE TypesNotTrue(_)
TypesNotTrue(conds) ==
    IF conds = <<>> THEN <<>>
    ELSE (IF Head(conds).status # ConditionTrue THEN <<Head(conds).type>> ELSE <<>>)
             \o TypesNotTrue(Tail(conds))

\* The types of the node's conditions whose status is True, in order.
RECURSIVE TrueTypes(_)
TrueTypes(conds) ==
    IF conds = <<>> THEN <<>>
    ELSE (IF Head(conds).status = ConditionTrue THEN <<Head(conds).type>> ELSE <<>>)
             \o TrueTypes(Tail(conds))

\* How many times `type` occurs in a sequence of types.
Occurrences(types, type) == Cardinality({ i \in DOMAIN types : types[i] = type })

\* Every condition whose status is True is counted, whatever its type.
RECURSIVE CountConditionsAnyType(_, _)
CountConditionsAnyType(items, type) ==
    IF items = <<>> THEN 0
    ELSE Len(TrueTypes(Head(items).conditions)) + CountConditionsAnyType(Tail(items), type)

\* What the loop over nodes.Items adds to the counter of `type`.
RECURSIVE CountConditions(_, _)
CountConditions(items, type) ==
    IF items = <<>> THEN 0
    ELSE Occurrences(TrueTypes(Head(items).conditions), type)
             + CountConditions(Tail(items), type)

\* The map is made anew for each node: only the last node's entry is left.
NodeConditionsLastOnly(items) ==
    IF items = <<>> THEN <<>>
    ELSE [ n \in {items[Len(items)].name} |-> TrueTypes(items[Len(items)].conditions) ]

\* status.NodeConditions[node.Name] = nodeConditions, for each node in turn.
NodeConditionsOf(items) ==
    [ n \in { items[i].name : i \in DOMAIN items } |->
        LET last == CHOOSE i \in DOMAIN items :
                        /\ items[i].name = n
                        /\ \A j \in DOMAIN items : items[j].name = n => j <= i
        IN  TrueTypes(items[last].conditions) ]

\* checkNodeHealth once the node listing succeeded.
checkNodeHealth(status, items) ==
    [status EXCEPT
        !.TotalNodes = Len(items),
        !.NodeConditions = NodeConditionsOf(items),
        !.ReadyNodes = @ + CountConditions(items, NodeReady),
        !.MemoryPressureNodes = @ + CountConditions(items, NodeMemoryPressure),
        !.DiskPressureNodes = @ + CountConditions(items, NodeDiskPressure),
        !.PIDPressureNodes = @ + CountConditions(items, NodePIDPressure),
        !.NetworkUnavailableNodes = @ + CountConditions(items, NodeNetworkUnavailable)]

\* The pods of `items` whose phase is `phase`.
PhaseCount(items, phase) == Cardinality({ i \in DOMAIN items : items[i].phase = phase })

\* Only the pods whose phase is Unknown are counted.
UnknownPhaseCount(items) == Cardinality({ i \in DOMAIN items : items[i].phase = PodUnknown })

\* The pods counted by the default case of the switch on the phase.
DefaultPhaseCount(items) ==
    Cardinality({ i \in DOMAIN items :
                    items[i].phase \notin {PodRunning, PodPending, PodSucceeded, PodFailed} })

\* The containers of the pod with RestartCount > 5.
RestartingContainers(pod) ==
    Cardinality({ k \in DOMAIN pod.containers : pod.containers[k].restartCount > 5 })

RECURSIVE RestartingCount(_)
RestartingCount(items) ==
    IF items = <<>> THEN 0
    ELSE RestartingContainers(Head(items)) + RestartingCount(Tail(items))

\* The pod's key, once for each of its containers waiting in CrashLoopBackOff.
RECURSIVE CrashLoopKeys(_, _)
CrashLoopKeys(pod, containers) ==
    IF containers = <<>> THEN <<>>
    ELSE (IF Head(containers).waiting = "CrashLoopBackOff"
          THEN <<Key(pod.ns, pod.name)>> ELSE <<>>)
             \o CrashLoopKeys(pod, Tail(containers))

RECURSIVE CrashLooping(_)
CrashLooping(items) ==
    IF items = <<>> THEN <<>>
    ELSE CrashLoopKeys(Head(items), Head(items).containers) \o CrashLooping(Tail(items))

\* status.PodsPerNode: the pods of each node name that is not empty.
PodsPerNodeOf(items) ==
    [ n \in { items[i].nodeName : i \in DOMAIN items } \ {""} |->
        Cardinality({ i \in DOMAIN items : items[i].nodeName = n }) ]

\* checkPodHealth once the pod listing succeeded.
checkPodHealth(status, items) ==
    [status EXCEPT
        !.TotalPods = Len(items),
        !.PodsPerNode = PodsPerNodeOf(items),
        !.CrashLoopingPods = CrashLooping(items),
        !.RunningPods = @ + PhaseCount(items, PodRunning),
        !.PendingPods = @ + PhaseCount(items, PodPending),
        !.SucceededPods = @ + PhaseCount(items, PodSucceeded),
        !.FailedPods = @ + PhaseCount(items, PodFailed),
        !.UnknownPods = @ + DefaultPhaseCount(items),
        !.RestartingPods = @ + RestartingCount(items)]

\* The kube-system pod names of the model and the component names each contains.
KubeSystemNames ==
    [ n \in {"kube-controller-manager-m1", "kube-scheduler-m1", "etcd-m1",
             "coredns-5d78c9869d-x", "coredns-5d78c9869d-y", "kube-proxy-x"} |->
        CASE n = "kube-controller-manager-m1" -> {"kube-controller-manager"}
          [] n = "kube-scheduler-m1" -> {"kube-scheduler"}
          [] n = "etcd-m1" -> {"etcd"}
          [] n = "coredns-5d78c9869d-x" -> {"coredns"}
          [] n = "coredns-5d78c9869d-y" -> {"coredns"}
          [] OTHER -> {} ]

\* strings.Contains(name, part), for the names above.
Contains(name, part) == part \in KubeSystemNames[name]

\* The component is healthy only if one of its pods is listed and Running.
ComponentHealthyPresent(items, part) ==
    /\ \E i \in DOMAIN items : Contains(items[i].name, part) /\ items[i].phase = PodRunning
    /\ \A i \in DOMAIN items :
          ~(Contains(items[i].name, part) /\ items[i].phase # PodRunning)

\* No pod of the component is in a phase other than Running.
ComponentHealthy(items, part) ==
    \A i \in DOMAIN items :
        ~(Contains(items[i].name, part) /\ items[i].phase # PodRunning)

\* checkControlPlaneHealth up to its first wait: Namespaces().List answered
\* (probeOK) after probeMs.
probeAPIServer(status, probeOK, probeMs) ==
    [status EXCEPT !.APIServerLatency = probeMs,
                   !.APIServerHealthy = probeOK /\ probeMs < 1000]

\* checkControlPlaneHealth from its second wait on: the kube-system listing
\* succeeded (listOK) with `items`.  Gives the status and whether an error is
\* returned.
listKubeSystem(probed, listOK, items) ==
    LET comps == [probed EXCEPT
                     !.ControllerHealthy = ComponentHealthy(items, "kube-controller-manager"),
                     !.SchedulerHealthy = ComponentHealthy(items, "kube-scheduler"),
                     !.EtcdHealthy = ComponentHealthy(items, "etcd"),
                     !.CoreDNSHealthy = ComponentHealthy(items, "coredns")]
    IN  IF ~listOK
        THEN [status |-> probed, failed |-> TRUE]
        ELSE [status |-> [comps EXCEPT !.OverallHealthy =
                             /\ comps.APIServerHealthy /\ comps.ControllerHealthy
                             /\ comps.SchedulerHealthy /\ comps.EtcdHealthy
                             /\ comps.CoreDNSHealthy],
              failed |-> FALSE]

\* checkControlPlaneHealth as a whole.
checkControlPlaneHealth(status, probeOK, probeMs, listOK, items) ==
    listKubeSystem(probeAPIServer(status, probeOK, probeMs), listOK, items)

AllRunning(phases) == \A i \in DOMAIN phases : phases[i] = PodRunning

\* The loop over ingressControllers.Items.  A deployment is [ready, replicas],
\* replicas the pointer Spec.Replicas: <<>> when nil, <<n>> otherwise.  The loop
\* ends "unhealthy" (break) at the first deployment with fewer ready replicas
\* than desired, it ends in a "panic" where it dereferences a nil pointer, and
\* it ends "healthy" when it has passed every deployment.
RECURSIVE IngressLoop(_)
IngressLoop(ds) ==
    IF ds = <<>> THEN "healthy"
    ELSE IF Head(ds).replicas = <<>> THEN "panic"
    ELSE IF Head(ds).ready < Head(ds).replicas[1] THEN "unhealthy"
    ELSE IngressLoop(Tail(ds))

\* Whether checkNetworkHealth panics instead of returning.
NetworkPanics(in) == in.ing.ok /\ IngressLoop(in.ing.deployments) = "panic"

\* checkNetworkHealth.  `in` holds what the API answered: cni and dns are
\* [ok, phases]; svc is [ok, services], a service being [selector, endpointsOK,
\* subsets]; ing is [ok, deployments]; np is [ok, count].  It never returns an
\* error; when it panics the status is as the assignments before the panic
\* left it.
checkNetworkHealth(status, in) ==
    [status EXCEPT
        !.CNIHealthy = in.cni.ok /\ AllRunning(in.cni.phases),
        !.DNSResolutionOK = in.dns.ok /\ AllRunning(in.dns.phases),
        !.ServiceEndpointsHealthy =
            /\ in.svc.ok
            /\ \A i \in DOMAIN in.svc.services :
                  LET svc == in.svc.services[i]
                  IN  svc.selector => (svc.endpointsOK /\ svc.subsets > 0),
        !.IngressHealthy = in.ing.ok /\ IngressLoop(in.ing.deployments) # "unhealthy",
        !.NetworkPoliciesCount = IF in.np.ok /\ ~NetworkPanics(in) THEN in.np.count ELSE @]

\* checkResourceUsage: on success the cluster-wide CPU and memory percentages.
checkResourceUsage(status, ok, cpu, mem) ==
    IF ok THEN [status EXCEPT !.ClusterCPUUsage = cpu, !.ClusterMemoryUsage = mem]
    ELSE status

\* checkComponentStatuses: on success one entry per component.
checkComponentStatuses(statuses, ok, listed) == IF ok THEN listed ELSE statuses

\* checkNamespaceHealth: on success an entry for each namespace.
checkNamespaceHealth(h, ok, namespaces) ==
    IF ok THEN [h EXCEPT !.NamespaceHealth = namespaces] ELSE h

\* The sub-scores, in hundredths of a point.
PressureTypes == {NodeMemoryPressure, NodeDiskPressure, NodePIDPressure}

PressureNodes(ns) ==
    Cardinality({ n \in DOMAIN ns.NodeConditions :
                    \E i \in DOMAIN ns.NodeConditions[n] :
                        ns.NodeConditions[n][i] \in PressureTypes })

NodeScore(ns) ==
    IF ns.TotalNodes = 0 THEN 10000
    ELSE Max(0, ((10000 * ns.ReadyNodes) \div ns.TotalNodes) - 500 * PressureNodes(ns))

PodScore(ps) ==
    IF ps.TotalPods = 0 THEN 10000
    ELSE Max(0, ((10000 * ps.RunningPods) \div ps.TotalPods)
                    - 200 * Len(ps.CrashLoopingPods) - 100 * ps.RestartingPods)

HealthyComponents(cp) ==
    Cardinality({ f \in {"APIServerHealthy", "ControllerHealthy", "SchedulerHealthy",
                         "EtcdHealthy", "CoreDNSHealthy"} : cp[f] })

ControlPlaneScore(cp) ==
    IF cp.OverallHealthy THEN 10000
    ELSE Max(0, ((10000 * HealthyComponents(cp)) \div 5)
                    - (IF cp.APIServerLatency >= 1000
                       THEN Min(2000, (100 * cp.APIServerLatency) \div 50) ELSE 0))

NetworkScore(nw) ==
    (10000 * Cardinality({ f \in {"CNIHealthy", "DNSResolutionOK",
                                  "ServiceEndpointsHealthy", "IngressHealthy"} : nw[f] })) \div 4

ResourceScore(ru) ==
    Max(0, 10000 - 200 * Max(0, ru.ClusterCPUUsage - 80)
                 - 200 * Max(0, ru.ClusterMemoryUsage - 80))

\* calculateHealthScore: the weighted sum, rounded to a whole point.
calculateHealthScore(h) ==
    Min(100, Max(0,
        (30 * NodeScore(h.NodeStatus) + 25 * PodScore(h.PodStatus)
            + 25 * ControlPlaneScore(h.ControlPlaneStatus)
            + 10 * NetworkScore(h.NetworkStatus)
            + 10 * ResourceScore(h.ResourceUsage) + 5000) \div 10000))

\* identifyHealthIssues: the categories whose sub-score is not the maximum.
identifyHealthIssues(h) ==
    { c \in {"node", "pod", "controlPlane", "network", "resourceUsage"} :
        (CASE c = "node" -> NodeScore(h.NodeStatus)
           [] c = "pod" -> PodScore(h.PodStatus)
           [] c = "controlPlane" -> ControlPlaneScore(h.ControlPlaneStatus)
           [] c = "network" -> NetworkScore(h.NetworkStatus)
           [] OTHER -> ResourceScore(h.ResourceUsage)) < 10000 }

\* The steps of GetClusterHealth, in the order it takes them.
Steps == <<"node", "pod", "controlPlane", "network", "resourceUsage",
           "componentStatuses", "namespace", "issues", "score">>

StepAfter(step) ==
    LET i == CHOOSE k \in DOMAIN Steps : Steps[k] = step
    IN  IF i = Len(Steps) THEN "return" ELSE Steps[i + 1]

\* Only the node check's error is returned.
FatalNodeOnly(check) == check = "node"

\* Every check's error is returned.
FatalAlways(check) == TRUE

\* Whether GetClusterHealth returns the check's error instead of logging it.
Fatal(check) == check \in {"node", "pod"}

ErrorOf(check) ==
    IF check = "node" THEN "node health check failed"
    ELSE IF check = "pod" THEN "pod health check failed"
    ELSE "check failed"

cleanupVars == <<configMaps, pods, now, pc, dryRun, cancelled, cmItems, podItems,
                 configMapsInUse, idx, recommendations, deleteCalls, returned, retNil,
                 err, runs, atStart, prev>>

\* An API request: its verb and the resource it names.
Req(verb, resource) == [verb |-> verb, resource |-> resource]

\* Every operation also deletes the pods it has looked at.
RequestsEvicting(op) == <<Req("list", "pods"), Req("deletecollection", "pods")>>

\* The requests a step of an operation issues through clientset and
\* metricsClient.  The checks on the control plane and on the network wait for
\* the API server several times, and each wait is a step: "controlPlane" is the
\* probe and "network" the listing of the CNI pods, their later steps are named
\* after the check.
Requests(op) ==
    CASE op = "node" -> <<Req("list", "nodes")>>
      [] op = "pod" -> <<Req("list", "pods")>>
      [] op = "controlPlane" -> <<Req("list", "namespaces")>>
      [] op = "controlPlane.list" -> <<Req("list", "pods")>>
      [] op = "network" -> <<Req("list", "pods")>>
      [] op = "network.dns" -> <<Req("list", "pods")>>
      [] op = "network.services" -> <<Req("list", "services")>>
      [] op = "network.endpoints" -> <<Req("get", "endpoints")>>
      [] op = "network.ingress" -> <<Req("list", "deployments")>>
      [] op = "network.policies" -> <<Req("list", "networkpolicies")>>
      [] op = "resourceUsage" -> <<Req("list", "nodemetrics")>>
      [] op = "componentStatuses" -> <<Req("list", "componentstatuses")>>
      [] op = "namespace" -> <<Req("list", "namespaces"), Req("list", "podmetrics")>>
      [] op = "nodes" -> <<Req("list", "nodes")>>
      [] op = "pods" -> <<Req("list", "pods")>>
      [] op = "nodeMetrics" -> <<Req("list", "nodemetrics")>>
      [] op = "podMetrics" -> <<Req("list", "podmetrics")>>
      [] OTHER -> <<>>

ReadVerbs == {"list", "get"}

\* What the API server does to the cluster on a request: list and get leave it
\* alone, deletecollection removes the objects of the resource.
Effect(req, s) ==
    IF req.verb \in ReadVerbs THEN s
    ELSE IF req.resource = "pods" THEN [s EXCEPT !.pods = <<>>]
    ELSE IF req.resource = "nodes" THEN [s EXCEPT !.nodes = <<>>]
    ELSE s

RECURSIVE Serve(_, _)
Serve(reqs, s) ==
    IF reqs = <<>> THEN s ELSE Serve(Tail(reqs), Effect(Head(reqs), s))

Issue(op) ==
    /\ issued' = issued \cup { Requests(op)[i] : i \in DOMAIN Requests(op) }
    /\ snap' = Serve(Requests(op), snap)

\* GetClusterHealth is called, at most `limit` times in a row.
BeginHealth(limit) ==
    /\ hpc \in {"idle", "done"}
    /\ hruns < limit
    /\ hruns' = hruns + 1
    /\ hprev' = IF hpc = "done"
                THEN [ran |-> TRUE, ret |-> hret, failed |-> hfailed, health |-> health]
                ELSE hprev
    /\ hpc' = "node"
    /\ health' = NewClusterHealth
    /\ checksRun' = <<>>
    /\ hfailed' = {}
    /\ hret' = "none"
    /\ herr' = ""
    /\ svcIdx' = 0
    /\ UNCHANGED <<snap, issued>>
    /\ UNCHANGED cleanupVars
    /\ UNCHANGED collectVars

\* GetClusterHealth has called `check`, which left `h`; `failed` when a listing
\* the check evaluates its category from failed, `errored` when the check
\* returned an error.
Checked(check, h, failed, errored) ==
    /\ hpc = check
    /\ checksRun' = Append(checksRun, check)
    /\ hfailed' = IF failed THEN hfailed \cup {check} ELSE hfailed
    /\ health' = h
    /\ Issue(check)
    /\ IF errored /\ Fatal(check)
       THEN /\ hpc' = "done"
            /\ hret' = "nil"
            /\ herr' = ErrorOf(check)
       ELSE /\ hpc' = StepAfter(check)
            /\ UNCHANGED <<hret, herr>>
    /\ UNCHANGED <<hruns, hprev, svcIdx>>
    /\ UNCHANGED cleanupVars
    /\ UNCHANGED collectVars

\* The check a step belongs to.
CheckOf(at) ==
    IF at = "controlPlane.list" THEN "controlPlane"
    ELSE IF at \in {"network.dns", "network.services", "network.endpoints",
                    "network.ingress", "network.policies"} THEN "network"
    ELSE at

\* One wait of a check that has several: the request of the step `at` was
\* issued and answered, which left `h` and takes the check to the step `to`,
\* its loop over the services at `i`; `failed` when the request failed.  The
\* check is called at its first step.
Stepped(at, to, h, failed, i) ==
    /\ hpc = at
    /\ checksRun' = IF at = CheckOf(at) THEN Append(checksRun, at) ELSE checksRun
    /\ hfailed' = IF failed THEN hfailed \cup {CheckOf(at)} ELSE hfailed
    /\ health' = h
    /\ Issue(at)
    /\ hpc' = to
    /\ svcIdx' = i
    /\ UNCHANGED <<hret, herr, hruns, hprev>>
    /\ UNCHANGED cleanupVars
    /\ UNCHANGED collectVars

\* The check panicked at the step `at`, after the step's request was answered
\* and leaving `h`: GetClusterHealth has no recover, it never returns.
Panicked(at, h) ==
    /\ hpc = at
    /\ health' = h
    /\ Issue(at)
    /\ hpc' = "panicked"
    /\ UNCHANGED <<checksRun, hfailed, hret, herr, hruns, hprev, svcIdx>>
    /\ UNCHANGED cleanupVars
    /\ UNCHANGED collectVars

(***************************************************************************)
(* The clusters the health checks and the collection are run against.      *)
(***************************************************************************)
NodeNames == <<"n1", "n2", "n3", "n4", "n5", "n6">>

\* A ready node; a node that is not ready and under memory pressure; a ready
\* node under memory and disk pressure.
NodeShapes ==
    << <<[type |-> NodeReady, status |-> ConditionTrue]>>,
       <<[type |-> NodeReady, status |-> ConditionFalse],
         [type |-> NodeMemoryPressure, status |-> ConditionTrue]>>,
       <<[type |-> NodeReady, status |-> ConditionTrue],
         [type |-> NodeMemoryPressure, status |-> ConditionTrue],
         [type |-> NodeDiskPressure, status |-> ConditionTrue]>> >>

\* The functions of 1..n -> 1..k that never decrease: one list for each
\* multiset of shapes.
Ascending(n, k) ==
    { f \in [1..n -> 1..k] : \A i \in 1..n : \A j \in 1..n : i < j => f[i] <= f[j] }

NodeLists ==
    UNION { { [i \in 1..n |-> [name |-> NodeNames[i], conditions |-> NodeShapes[f[i]]]] :
                f \in Ascending(n, Len(NodeShapes)) } : n \in 0..MaxNodes }

HealthPodNames == <<"w1", "w2", "w3", "w4", "w5", "w6">>

\* A running pod; a running pod whose two containers both restart in a crash
\* loop; a pending pod no node has been given.
HealthPodShapes ==
    << [nodeName |-> "n1", phase |-> PodRunning,
        containers |-> <<[restartCount |-> 0, waiting |-> ""]>>],
       [nodeName |-> "n2", phase |-> PodRunning,
        containers |-> <<[restartCount |-> 6, waiting |-> "CrashLoopBackOff"],
                         [restartCount |-> 7, waiting |-> "CrashLoopBackOff"]>>],
       [nodeName |-> "", phase |-> PodPending, containers |-> <<>>] >>

HealthPodLists ==
    UNION { { [i \in 1..n |-> [ns |-> "ns1", name |-> HealthPodNames[i],
                               nodeName |-> HealthPodShapes[f[i]].nodeName,
                               phase |-> HealthPodShapes[f[i]].phase,
                               containers |-> HealthPodShapes[f[i]].containers]] :
                f \in Ascending(n, Len(HealthPodShapes)) } : n \in 0..MaxHealthPods }

\* What the probe of the API server may answer: whether it succeeded, and after
\* how many milliseconds (each answer of the model after a time of its own).
Probes == { [ok |-> TRUE, ms |-> 20], [ok |-> TRUE, ms |-> 1500], [ok |-> FALSE, ms |-> 30] }

KubeSystemUp ==
    <<[name |-> "kube-controller-manager-m1", phase |-> PodRunning],
      [name |-> "kube-scheduler-m1", phase |-> PodRunning],
      [name |-> "etcd-m1", phase |-> PodRunning],
      [name |-> "coredns-5d78c9869d-x", phase |-> PodRunning],
      [name |-> "kube-proxy-x", phase |-> PodPending]>>

KubeSystemEtcdPending ==
    <<[name |-> "kube-controller-manager-m1", phase |-> PodRunning],
      [name |-> "etcd-m1", phase |-> PodPending]>>

NetworkFine ==
    [cni |-> [ok |-> TRUE, phases |-> <<PodRunning>>],
     dns |-> [ok |-> TRUE, phases |-> <<PodRunning>>],
     svc |-> [ok |-> TRUE,
              services |-> <<[selector |-> TRUE, endpointsOK |-> TRUE, subsets |-> 1],
                             [selector |-> FALSE, endpointsOK |-> FALSE, subsets |-> 0],
                             [selector |-> TRUE, endpointsOK |-> TRUE, subsets |-> 2]>>],
     ing |-> [ok |-> TRUE, deployments |-> <<[ready |-> 2, replicas |-> <<2>>]>>],
     np |-> [ok |-> TRUE, count |-> 1]]

\* A CNI pod is pending, no service has a selector and the ingress controller
\* lacks a replica.
NetworkCniPending ==
    [NetworkFine EXCEPT !.cni = [ok |-> TRUE, phases |-> <<PodRunning, PodPending>>],
                        !.svc = [ok |-> TRUE,
                                 services |-> <<[selector |-> FALSE, endpointsOK |-> FALSE,
                                                 subsets |-> 0]>>],
                        !.ing = [ok |-> TRUE, deployments |-> <<[ready |-> 1, replicas |-> <<2>>]>>]]

\* A service with a selector has no endpoint subset; no ingress controller.
NetworkNoEndpoints ==
    [NetworkFine EXCEPT !.svc = [ok |-> TRUE,
                                 services |-> <<[selector |-> TRUE, endpointsOK |-> TRUE,
                                                 subsets |-> 0]>>],
                        !.ing = [ok |-> TRUE, deployments |-> <<>>]]

\* Nothing of the network is healthy, whether the requests are answered or not.
NetworkDegraded ==
    [cni |-> [ok |-> TRUE, phases |-> <<PodPending>>],
     dns |-> [ok |-> TRUE, phases |-> <<PodPending>>],
     svc |-> [ok |-> TRUE,
              services |-> <<[selector |-> FALSE, endpointsOK |-> TRUE, subsets |-> 0],
                             [selector |-> TRUE, endpointsOK |-> TRUE, subsets |-> 0]>>],
     ing |-> [ok |-> TRUE, deployments |-> <<[ready |-> 1, replicas |-> <<2>>]>>],
     np |-> [ok |-> TRUE, count |-> 0]]

UsageLow == [cpu |-> 65, mem |-> 72]
UsageHigh == [cpu |-> 90, mem |-> 95]

\* The control plane, the network and the usage of the clusters of the model.
ClusterRests ==
    { [kubeSystem |-> KubeSystemUp, network |-> NetworkFine, usage |-> UsageLow],
      [kubeSystem |-> KubeSystemEtcdPending, network |-> NetworkFine, usage |-> UsageLow],
      [kubeSystem |-> KubeSystemUp, network |-> NetworkCniPending, usage |-> UsageHigh],
      [kubeSystem |-> <<>>, network |-> NetworkNoEndpoints, usage |-> UsageLow] }

Snapshot(nodes, ps, rest) ==
    [nodes |-> nodes, pods |-> ps, kubeSystem |-> rest.kubeSystem,
     network |-> rest.network, usage |-> rest.usage]

\* The control plane up over a network of which nothing is healthy.
DegradedRest == [kubeSystem |-> KubeSystemUp, network |-> NetworkDegraded, usage |-> UsageLow]

\* A ready node and one that is not, under memory pressure; a pod in a crash loop.
MixedNodes ==
    <<[name |-> NodeNames[1], conditions |-> NodeShapes[1]],
      [name |-> NodeNames[2], conditions |-> NodeShapes[2]]>>

MixedPods ==
    <<[ns |-> "ns1", name |-> HealthPodNames[1],
       nodeName |-> HealthPodShapes[2].nodeName, phase |-> HealthPodShapes[2].phase,
       containers |-> HealthPodShapes[2].containers]>>

\* Three nodes, the last of them not ready and under memory pressure.
ThreeNodes ==
    [i \in 1..3 |-> [name |-> NodeNames[i],
                     conditions |-> NodeShapes[IF i = 3 THEN 2 ELSE 1]]]

\* The clusters of the model: over the degraded network every list of nodes
\* with at most one pod and every list of pods with at most one node; over each
\* of ClusterRests the empty cluster, the mixed one and the three nodes.
Snapshots ==
    { s \in { Snapshot(n, ps, DegradedRest) : n \in NodeLists, ps \in HealthPodLists } :
        Len(s.nodes) <= 1 \/ Len(s.pods) <= 1 }
        \cup { Snapshot(<<>>, <<>>, r) : r \in ClusterRests }
        \cup { Snapshot(MixedNodes, MixedPods, r) : r \in ClusterRests }
        \cup { Snapshot(ThreeNodes, <<>>, r) : r \in ClusterRests }

\* A cluster with nothing in it.
EmptySnapshot ==
    [nodes |-> <<>>, pods |-> <<>>, kubeSystem |-> <<>>, network |-> NetworkFine,
     usage |-> UsageLow]

\* What the listing of the ingress-controller deployments may hold: as many
\* ready replicas as desired, fewer, more, and no desired count at all.
IngressShapes ==
    { [ready |-> 2, replicas |-> <<2>>], [ready |-> 1, replicas |-> <<2>>],
      [ready |-> 3, replicas |-> <<2>>], [ready |-> 1, replicas |-> <<>>] }

IngressAnswers ==
    { [ok |-> FALSE, deployments |-> <<>>] }
        \cup { [ok |-> TRUE, deployments |-> ds] :
                 ds \in UNION { [1..n -> IngressShapes] : n \in 0..MaxIngress } }

\* The listings of a component's pod: none, the pod Running, the pod Failed.
ComponentListings(name) ==
    { <<>>, <<[name |-> name, phase |-> PodRunning]>>, <<[name |-> name, phase |-> PodFailed]>> }

\* The kube-system listings: for each component one listing of its pod, and
\* for coredns a second pod as well.
EdgeKubeSystemLists ==
    { a \o b \o c \o d \o e :
        a \in ComponentListings("kube-controller-manager-m1"),
        b \in ComponentListings("kube-scheduler-m1"),
        c \in ComponentListings("etcd-m1"),
        d \in ComponentListings("coredns-5d78c9869d-x"),
        e \in ComponentListings("coredns-5d78c9869d-y") }

\* Pods of every phase, among them the empty phase and one the switch does not
\* name, with and without a node.
EdgePodShapes ==
    << [nodeName |-> "n1", phase |-> PodRunning], [nodeName |-> "", phase |-> PodPending],
       [nodeName |-> "n1", phase |-> PodSucceeded], [nodeName |-> "n2", phase |-> PodFailed],
       [nodeName |-> "n2", phase |-> PodUnknown], [nodeName |-> "", phase |-> ""],
       [nodeName |-> "n1", phase |-> "Terminating"] >>

EdgePodLists ==
    UNION { { [i \in 1..n |-> [ns |-> "ns1", name |-> HealthPodNames[i],
                               nodeName |-> EdgePodShapes[f[i]].nodeName,
                               phase |-> EdgePodShapes[f[i]].phase,
                               containers |-> <<>>]] :
                f \in Ascending(n, Len(EdgePodShapes)) } : n \in 1..MaxHealthPods }

\* A ready node; a node whose condition list holds Ready twice; a node that is
\* not ready and whose list holds MemoryPressure twice.
EdgeNodeShapes ==
    << <<[type |-> NodeReady, status |-> ConditionTrue]>>,
       <<[type |-> NodeReady, status |-> ConditionTrue],
         [type |-> NodeReady, status |-> ConditionTrue]>>,
       <<[type |-> NodeReady, status |-> ConditionFalse],
         [type |-> NodeMemoryPressure, status |-> ConditionTrue],
         [type |-> NodeMemoryPressure, status |-> ConditionTrue]>> >>

EdgeNodeLists ==
    UNION { { [i \in 1..n |-> [name |-> NodeNames[i], conditions |-> EdgeNodeShapes[f[i]]]] :
                f \in Ascending(n, Len(EdgeNodeShapes)) } : n \in 1..MaxNodes }

EdgeRest(kubeSystem, ing) ==
    [kubeSystem |-> kubeSystem, network |-> [NetworkDegraded EXCEPT !.ing = ing],
     usage |-> UsageLow]

\* Clusters that differ in one respect from an empty one with its control plane
\* up over the degraded network: in their ingress-controller deployments, in
\* their kube-system pods, in their pods, or in their nodes.
EdgeSnapshots ==
    { Snapshot(<<>>, <<>>, EdgeRest(KubeSystemUp, a)) : a \in IngressAnswers }
        \cup { Snapshot(<<>>, <<>>, EdgeRest(ks, NetworkDegraded.ing)) : ks \in EdgeKubeSystemLists }
        \cup { Snapshot(<<>>, ps, EdgeRest(KubeSystemUp, NetworkDegraded.ing)) : ps \in EdgePodLists }
        \cup { Snapshot(n, <<>>, EdgeRest(KubeSystemUp, NetworkDegraded.ing)) : n \in EdgeNodeLists }

\* checkNodeHealth(ctx, clientset, &health.NodeStatus)
CheckNode ==
    \/ Checked("node", [health EXCEPT !.NodeStatus = checkNodeHealth(@, snap.nodes)],
               FALSE, FALSE)
    \/ Checked("node", health, TRUE, TRUE)

\* checkPodHealth(ctx, clientset, &health.PodStatus)
CheckPod ==
    \/ Checked("pod", [health EXCEPT !.PodStatus = checkPodHealth(@, snap.pods)],
               FALSE, FALSE)
    \/ Checked("pod", health, TRUE, TRUE)

\* checkControlPlaneHealth is called and probes the API server:
\* Namespaces().List, timed.
ProbeAPIServer ==
    \E probe \in Probes :
        Stepped("controlPlane", "controlPlane.list",
                [health EXCEPT !.ControlPlaneStatus = probeAPIServer(@, probe.ok, probe.ms)],
                FALSE, 0)

\* checkControlPlaneHealth lists the pods of kube-system and returns.
ListKubeSystem ==
    \E listOK \in BOOLEAN :
        LET r == listKubeSystem(health.ControlPlaneStatus, listOK,
                                IF listOK THEN snap.kubeSystem ELSE <<>>)
        IN  Stepped("controlPlane.list", StepAfter("controlPlane"),
                    [health EXCEPT !.ControlPlaneStatus = r.status], r.failed, 0)

\* checkControlPlaneHealth(ctx, clientset, &health.ControlPlaneStatus)
CheckControlPlane ==
    \/ ProbeAPIServer
    \/ ListKubeSystem

\* What the API answers when the request for `part` is answered (ok) or fails.
Answered(part, ok) == IF ok THEN snap.network ELSE [snap.network EXCEPT ![part].ok = FALSE]

\* checkNetworkHealth is called and lists the CNI pods.
CheckCNI ==
    \E ok \in BOOLEAN :
        Stepped("network", "network.dns",
                [health EXCEPT !.NetworkStatus.CNIHealthy =
                    checkNetworkHealth(health.NetworkStatus, Answered("cni", ok)).CNIHealthy],
                ~Answered("cni", ok).cni.ok, 0)

\* checkNetworkHealth lists the CoreDNS pods.
CheckDNS ==
    \E ok \in BOOLEAN :
        Stepped("network.dns", "network.services",
                [health EXCEPT !.NetworkStatus.DNSResolutionOK =
                    checkNetworkHealth(health.NetworkStatus, Answered("dns", ok)).DNSResolutionOK],
                ~Answered("dns", ok).dns.ok, 0)

\* The first service after the i-th that has a selector, 0 when there is none.
NextSelector(services, i) ==
    LET later == { j \in DOMAIN services : j > i /\ services[j].selector }
    IN  IF later = {} THEN 0 ELSE CHOOSE j \in later : \A k \in later : j <= k

\* checkNetworkHealth lists the services and enters the loop over them.
ListServices ==
    \E ok \in BOOLEAN :
        LET in == Answered("svc", ok)
            first == IF in.svc.ok THEN NextSelector(in.svc.services, 0) ELSE 0
        IN  Stepped("network.services",
                    IF first = 0 THEN "network.ingress" ELSE "network.endpoints",
                    [health EXCEPT !.NetworkStatus.ServiceEndpointsHealthy = in.svc.ok],
                    ~in.svc.ok, first)

\* Endpoints(svc.Namespace).Get for the service the loop stands at: the loop
\* goes on to the next service that has a selector, or breaks.
GetEndpoints ==
    \E ok \in BOOLEAN :
        LET svc == snap.network.svc.services[svcIdx]
            got == ok /\ svc.endpointsOK
            next == NextSelector(snap.network.svc.services, svcIdx)
        IN  /\ svcIdx > 0
            /\ IF got /\ svc.subsets > 0
               THEN Stepped("network.endpoints",
                            IF next = 0 THEN "network.ingress" ELSE "network.endpoints",
                            health, FALSE, next)
               ELSE Stepped("network.endpoints", "network.ingress",
                            [health EXCEPT !.NetworkStatus.ServiceEndpointsHealthy = FALSE],
                            ~got, 0)

\* checkNetworkHealth lists the ingress-controller deployments and loops over them.
CheckIngress ==
    \E ok \in BOOLEAN :
        LET in == Answered("ing", ok)
            h == [health EXCEPT !.NetworkStatus.IngressHealthy =
                     checkNetworkHealth(health.NetworkStatus, in).IngressHealthy]
        IN  IF NetworkPanics(in)
            THEN Panicked("network.ingress", h)
            ELSE Stepped("network.ingress", "network.policies", h, ~in.ing.ok, 0)

\* checkNetworkHealth counts the network policies and returns.
CountNetworkPolicies ==
    \E ok \in BOOLEAN :
        LET in == Answered("np", ok)
        IN  Stepped("network.policies", StepAfter("network"),
                    [health EXCEPT !.NetworkStatus.NetworkPoliciesCount =
                        IF in.np.ok THEN in.np.count ELSE @],
                    ~in.np.ok, 0)

\* checkNetworkHealth(ctx, clientset, &health.NetworkStatus)
CheckNetwork ==
    \/ CheckCNI
    \/ CheckDNS
    \/ ListServices
    \/ GetEndpoints
    \/ CheckIngress
    \/ CountNetworkPolicies

\* checkResourceUsage(ctx, clientset, metricsClient, &health.ResourceUsage)
CheckResourceUsage ==
    \/ Checked("resourceUsage",
               [health EXCEPT !.ResourceUsage =
                   checkResourceUsage(@, TRUE, snap.usage.cpu, snap.usage.mem)],
               FALSE, FALSE)
    \/ Checked("resourceUsage",
               [health EXCEPT !.ResourceUsage = checkResourceUsage(@, FALSE, 0, 0)],
               TRUE, TRUE)

\* checkComponentStatuses(ctx, clientset, &health.ComponentStatuses)
CheckComponentStatuses ==
    \E ok \in BOOLEAN :
        Checked("componentStatuses",
                [health EXCEPT !.ComponentStatuses =
                    checkComponentStatuses(@, ok, <<[Name |-> "etcd-0", Healthy |-> TRUE]>>)],
                ~ok, ~ok)

\* checkNamespaceHealth(ctx, clientset, metricsClient, health)
CheckNamespace ==
    \E ok \in BOOLEAN :
        Checked("namespace", checkNamespaceHealth(health, ok, Namespaces), ~ok, ~ok)

\* identifyHealthIssues(health)
IdentifyIssues ==
    Checked("issues", [health EXCEPT !.Issues = identifyHealthIssues(health)], FALSE, FALSE)

\* health.HealthScore = calculateHealthScore(health)
CalculateScore ==
    Checked("score", [health EXCEPT !.HealthScore = calculateHealthScore(health)],
            FALSE, FALSE)

\* return health, nil
ReturnHealth ==
    /\ hpc = "return"
    /\ hpc' = "done"
    /\ hret' = "health"
    /\ herr' = ""
    /\ UNCHANGED <<health, checksRun, hfailed, snap, issued, hruns, hprev, svcIdx>>
    /\ UNCHANGED cleanupVars
    /\ UNCHANGED collectVars

(***************************************************************************)
(* Client.GetClusterResources and GenerateOptimizationReport               *)
(***************************************************************************)
\* NodeMetricses().List and PodMetricses(NamespaceAll).List: one item for each
\* node and for each pod.
NodeMetricsOf(s) ==
    [i \in DOMAIN s.nodes |-> [name |-> s.nodes[i].name, cpu |-> s.usage.cpu,
                               mem |-> s.usage.mem]]

PodMetricsOf(s) ==
    [i \in DOMAIN s.pods |-> [ns |-> s.pods[i].ns, name |-> s.pods[i].name,
                              cpu |-> s.usage.cpu, mem |-> s.usage.mem]]

\* The four listings of GetClusterResources, in the order it makes them.
CollectSteps == <<"nodes", "pods", "nodeMetrics", "podMetrics">>

CollectAfter(step) ==
    LET i == CHOOSE k \in DOMAIN CollectSteps : CollectSteps[k] = step
    IN  IF i = Len(CollectSteps) THEN "return" ELSE CollectSteps[i + 1]

\* What the API server lists at a step.
Listed(step, s) ==
    CASE step = "nodes" -> s.nodes
      [] step = "pods" -> s.pods
      [] step = "nodeMetrics" -> NodeMetricsOf(s)
      [] OTHER -> PodMetricsOf(s)

\* fmt.Errorf("failed to get ...: %w", err)
CollectError(step) ==
    CASE step = "nodes" -> "failed to get nodes"
      [] step = "pods" -> "failed to get pods"
      [] step = "nodeMetrics" -> "failed to get node metrics"
      [] OTHER -> "failed to get pod metrics"

\* Whether GetClusterResources returns the error of the step's listing.
CollectFatal(step) == step \in {"nodes", "pods", "nodeMetrics", "podMetrics"}

NoResources == [nodes |-> <<>>, pods |-> <<>>, nodeMetrics |-> <<>>, podMetrics |-> <<>>]

NoCollection == [ret |-> "none", resources |-> NoResources, err |-> "", failed |-> {}]

\* GetClusterResources is called.
BeginCollect ==
    /\ rpc = "idle"
    /\ rpc' = "nodes"
    /\ rres' = NoCollection
    /\ UNCHANGED <<report, snap, issued>>
    /\ UNCHANGED costVars
    /\ UNCHANGED <<hpc, health, checksRun, hfailed, hret, herr, hruns, hprev, svcIdx>>
    /\ UNCHANGED cleanupVars

\* One listing of GetClusterResources: it succeeds and the items are kept, or
\* it fails.
Collect(step) ==
    /\ rpc = step
    /\ Issue(step)
    /\ \/ /\ rres' = [rres EXCEPT !.resources[step] = Listed(step, snap)]
          /\ rpc' = CollectAfter(step)
       \/ IF CollectFatal(step)
          THEN /\ rres' = [rres EXCEPT !.ret = "nil", !.err = CollectError(step),
                                       !.failed = @ \cup {step}]
               /\ rpc' = "done"
          ELSE /\ rres' = [rres EXCEPT !.failed = @ \cup {step}]
               /\ rpc' = CollectAfter(step)
    /\ UNCHANGED report
    /\ UNCHANGED costVars
    /\ UNCHANGED <<hpc, health, checksRun, hfailed, hret, herr, hruns, hprev, svcIdx>>
    /\ UNCHANGED cleanupVars

GetNodes == Collect("nodes")
GetPods == Collect("pods")
ListNodeMetrics == Collect("nodeMetrics")
ListPodMetrics == Collect("podMetrics")

\* return resources, nil
ReturnResources ==
    /\ rpc = "return"
    /\ rpc' = "done"
    /\ rres' = [rres EXCEPT !.ret = "resources"]
    /\ UNCHANGED <<report, snap, issued>>
    /\ UNCHANGED costVars
    /\ UNCHANGED <<hpc, health, checksRun, hfailed, hret, herr, hruns, hprev, svcIdx>>
    /\ UNCHANGED cleanupVars

NoReport == [returned |-> FALSE, PotentialSavings |-> 0, Recommendations |-> <<>>, err |-> ""]

\* GenerateOptimizationReport: an empty report and a nil error.
GenerateOptimizationReport ==
    /\ ~report.returned
    /\ report' = [returned |-> TRUE, PotentialSavings |-> 0, Recommendations |-> <<>>,
                  err |-> ""]
    /\ Issue("report")
    /\ UNCHANGED <<rpc, rres>>
    /\ UNCHANGED costVars
    /\ UNCHANGED <<hpc, health, checksRun, hfailed, hret, herr, hruns, hprev, svcIdx>>
    /\ UNCHANGED cleanupVars

(***************************************************************************)
(* Pricing Resolver and Cost Aggregator.  Prices are whole numbers of       *)
(* 1/10000 dollar per unit and hour, multipliers are in hundredths, so a    *)
(* resolved price and a cost are in millionths of a dollar per hour.  GPU   *)
(* pricing and the forecast are left out.                                   *)
(***************************************************************************)
ResourceTypes == {"cpu", "memory", "storage", "network"}

PricingDefaults == [t \in ResourceTypes |->
    CASE t = "cpu" -> 300 [] t = "memory" -> 40 [] t = "storage" -> 1 [] OTHER -> 800]

\* m5.large overrides every resource type, c5.large the cpu price only.
InstanceTypesListed ==
    [it \in {"m5.large", "c5.large"} |->
        IF it = "m5.large"
        THEN [t \in ResourceTypes |->
                 CASE t = "cpu" -> 320 [] t = "memory" -> 45 [] t = "storage" -> 2
                   [] OTHER -> 900]
        ELSE [t \in {"cpu"} |-> 350]]

RegionMultipliersListed ==
    [r \in {"us-east-1", "us-west-2"} |-> IF r = "us-east-1" THEN 100 ELSE 105]

Nothing == [x \in {} |-> 0]

PricingFull ==
    [defaults |-> PricingDefaults, instanceTypes |-> InstanceTypesListed,
     regionMultipliers |-> RegionMultipliersListed]

\* A config that contains only `defaults`.
PricingDefaultsOnly ==
    [defaults |-> PricingDefaults, instanceTypes |-> Nothing, regionMultipliers |-> Nothing]

PricingConfigs == { PricingFull, PricingDefaultsOnly }

CostNodes ==
    { [name |-> "n1", instanceType |-> it, region |-> r,
       allocatable |-> [t \in ResourceTypes |->
           CASE t = "cpu" -> 2 [] t = "memory" -> 8 [] t = "storage" -> 100 [] OTHER -> 1]] :
        it \in {"m5.large", "c5.large", "t3.nano"}, r \in {"us-west-2", "mars-1", ""} }

\* A pod with a declared request, one with only observed usage, one with neither.
CostPodShapes ==
    << [request |-> 500, usage |-> 200],
       [request |-> 0, usage |-> 300],
       [request |-> 0, usage |-> 0] >>

CostPodLists ==
    UNION { { [i \in 1..n |-> [name |-> HealthPodNames[i],
                               request |-> CostPodShapes[f[i]].request,
                               usage |-> CostPodShapes[f[i]].usage]] :
                f \in Ascending(n, Len(CostPodShapes)) } : n \in 0..MaxCostPods }

CostInputs ==
    { [pricing |-> pr, node |-> n, pods |-> ps] :
        pr \in PricingConfigs, n \in CostNodes, ps \in CostPodLists }

\* The defaults take precedence over the instance type's entry.
ResolvePriceDefaultsFirst(node, pricing) ==
    LET mult == IF node.region \in DOMAIN pricing.regionMultipliers
                THEN pricing.regionMultipliers[node.region] ELSE 100
    IN  [t \in ResourceTypes |-> pricing.defaults[t] * mult]

\* ResolvePrice(node, pricing): for each resource type the instance type's
\* price when the config has one, else the default, times the region's
\* multiplier, 1.0 when the config has none for the region.
ResolvePrice(node, pricing) ==
    LET entry == IF node.instanceType \in DOMAIN pricing.instanceTypes
                 THEN pricing.instanceTypes[node.instanceType] ELSE Nothing
        mult == IF node.region \in DOMAIN pricing.regionMultipliers
                THEN pricing.regionMultipliers[node.region] ELSE 100
    IN  [t \in ResourceTypes |->
            (IF t \in DOMAIN entry THEN entry[t] ELSE pricing.defaults[t]) * mult]

RECURSIVE SumTypes(_, _, _)
SumTypes(types, alloc, prices) ==
    IF types = {} THEN 0
    ELSE LET t == CHOOSE x \in types : TRUE
         IN  alloc[t] * prices[t] + SumTypes(types \ {t}, alloc, prices)

\* Node hourly cost: the sum over the resource types of allocatable x price.
NodeHourlyCost(node, prices) == SumTypes(ResourceTypes, node.allocatable, prices)

\* What a pod's share is in proportion to: its request, else its observed usage.
Basis(pod) == IF pod.request > 0 THEN pod.request ELSE pod.usage

RECURSIVE SumBasis(_)
SumBasis(ps) == IF ps = <<>> THEN 0 ELSE Basis(Head(ps)) + SumBasis(Tail(ps))

\* A pod with neither request nor usage is given an equal share even when the
\* other pods are given proportional ones.
AttributeCostEqualShareForBare(total, ps) ==
    [i \in DOMAIN ps |->
        IF Basis(ps[i]) = 0 THEN total \div Len(ps)
        ELSE (total * Basis(ps[i])) \div SumBasis(ps)]

\* The node's cost distributed over its resident pods: in proportion to request
\* or usage, and in equal parts when no pod has either.
AttributeCost(total, ps) ==
    [i \in DOMAIN ps |->
        IF SumBasis(ps) = 0 THEN total \div Len(ps)
        ELSE (total * Basis(ps[i])) \div SumBasis(ps)]

NoCostInput == [pricing |-> PricingDefaultsOnly, node |-> CHOOSE n \in CostNodes : TRUE,
                pods |-> <<>>]

NoCostOutput == [pc |-> "idle", prices |-> Nothing, nodeCost |-> 0, podCosts |-> <<>>,
                 err |-> ""]

costFrame ==
    /\ UNCHANGED <<costIn, rpc, rres, report, snap, issued>>
    /\ UNCHANGED <<hpc, health, checksRun, hfailed, hret, herr, hruns, hprev, svcIdx>>
    /\ UNCHANGED cleanupVars

\* The prices of the node are resolved.
ResolvePriceStep ==
    /\ costOut.pc = "idle"
    /\ costOut' = [costOut EXCEPT !.pc = "priced",
                                  !.prices = ResolvePrice(costIn.node, costIn.pricing)]
    /\ costFrame

\* The node's hourly cost is computed from the resolved prices.
ComputeNodeCost ==
    /\ costOut.pc = "priced"
    /\ costOut' = [costOut EXCEPT !.pc = "costed",
                                  !.nodeCost = NodeHourlyCost(costIn.node, costOut.prices)]
    /\ costFrame

\* The node's cost is attributed to its resident pods.
AttributePodCosts ==
    /\ costOut.pc = "costed"
    /\ costOut' = [costOut EXCEPT !.pc = "done",
                                  !.podCosts = AttributeCost(costOut.nodeCost, costIn.pods)]
    /\ costFrame

InitCollect ==
    /\ rpc = "idle"
    /\ rres = NoCollection
    /\ report = NoReport

NoHealthPrev == [ran |-> FALSE, ret |-> "none", failed |-> {}, health |-> NewClusterHealth]

InitHealth ==
    /\ hpc = "idle"
    /\ health = NewClusterHealth
    /\ checksRun = <<>>
    /\ hfailed = {}
    /\ hret = "none"
    /\ herr = ""
    /\ issued = {}
    /\ hruns = 0
    /\ hprev = NoHealthPrev
    /\ svcIdx = 0

NoPrev == [ran |-> FALSE, dryRun |-> FALSE, err |-> "", recommendations |-> <<>>,
           returned |-> <<>>, began |-> 0]

InitInv ==
    /\ now = 0
    /\ pc = [p \in Procs |-> "idle"]
    /\ dryRun = [p \in Procs |-> FALSE]
    /\ cancelled = [p \in Procs |-> FALSE]
    /\ cmItems = [p \in Procs |-> <<>>]
    /\ podItems = [p \in Procs |-> <<>>]
    /\ configMapsInUse = [p \in Procs |-> {}]
    /\ idx = [p \in Procs |-> 0]
    /\ recommendations = [p \in Procs |-> <<>>]
    /\ deleteCalls = [p \in Procs |-> <<>>]
    /\ returned = [p \in Procs |-> <<>>]
    /\ retNil = [p \in Procs |-> FALSE]
    /\ err = [p \in Procs |-> ""]
    /\ runs = [p \in Procs |-> 0]
    /\ atStart = [p \in Procs |-> [configMaps |-> {}, pods |-> {}, now |-> 0]]
    /\ prev = [p \in Procs |-> NoPrev]
    /\ InitHealth
    /\ InitCollect
    /\ costOut = NoCostOutput

Init ==
    /\ configMaps \in SUBSET CMUniverse
    /\ pods \in PodSets
    /\ snap = EmptySnapshot
    /\ costIn = NoCostInput
    /\ InitInv

\* One caller invoking the cleanup once, in either mode.
Next ==
    \/ \E dry \in BOOLEAN : Start(1, dry, 1)
    \/ DoListConfigMaps(1)
    \/ DoListPods(1)
    \/ CmIter(1)
    \/ PodIter(1)
    \/ Return(1)

Spec == Init /\ [][Next]_vars

\* A smaller family of clusters, for the specifications with more interleaving:
\* every ConfigMap exists, the first pod varies over running and failed shapes,
\* the second is absent, an old succeeded pod, or a running pod mounting "a".
SmallPodSets ==
    { a \cup b :
        a \in {{}} \cup { {Pod("ns1", "p1", ph, c, r)} :
                            ph \in {PodRunning, PodFailed}, c \in PodCreated, r \in RefShapes },
        b \in { {},
                {Pod("ns2", "p2", PodSucceeded, -(RetentionHours + 1), [vols |-> {}, envs |-> {}])},
                {Pod("ns2", "p2", PodRunning, -RetentionHours, [vols |-> {"a"}, envs |-> {}])} } }

InitSmall ==
    /\ configMaps = CMUniverse
    /\ pods \in SmallPodSets
    /\ snap = EmptySnapshot
    /\ costIn = NoCostInput
    /\ InitInv

\* One caller invoking the cleanup up to MaxRuns times in a row, while time passes.
NextRepeat ==
    \/ \E dry \in BOOLEAN : Start(1, dry, MaxRuns)
    \/ DoListConfigMaps(1)
    \/ DoListPods(1)
    \/ CmIter(1)
    \/ PodIter(1)
    \/ Return(1)
    \/ Tick

SpecRepeat == InitSmall /\ [][NextRepeat]_vars

\* One caller invoking the cleanup once, its context cancelled at any moment.
NextCancel ==
    \/ \E dry \in BOOLEAN : Start(1, dry, 1)
    \/ DoListConfigMaps(1)
    \/ DoListPods(1)
    \/ CmIter(1)
    \/ PodIter(1)
    \/ Return(1)
    \/ Cancel(1)

SpecCancel == InitSmall /\ [][NextCancel]_vars

\* Two callers, each invoking the cleanup once in apply mode, concurrently.
NextConc ==
    \E p \in Procs :
        \/ Start(p, FALSE, 1)
        \/ DoListConfigMaps(p)
        \/ DoListPods(p)
        \/ CmIter(p)
        \/ PodIter(p)
        \/ Return(p)

SpecConc == InitSmall /\ [][NextConc]_vars

\* One caller invoking the cleanup once, while pods are created.
NextCreate ==
    \/ \E dry \in BOOLEAN : Start(1, dry, 1)
    \/ DoListConfigMaps(1)
    \/ DoListPods(1)
    \/ CmIter(1)
    \/ PodIter(1)
    \/ Return(1)
    \/ CreatePod

SpecCreate == InitSmall /\ [][NextCreate]_vars

\* One evaluation of the cluster's health.
InitHealthOnly ==
    /\ configMaps = {}
    /\ pods = {}
    /\ snap \in Snapshots
    /\ costIn = NoCostInput
    /\ InitInv

NextHealth ==
    \/ BeginHealth(1)
    \/ CheckNode
    \/ CheckPod
    \/ CheckControlPlane
    \/ CheckNetwork
    \/ CheckResourceUsage
    \/ CheckComponentStatuses
    \/ CheckNamespace
    \/ IdentifyIssues
    \/ CalculateScore
    \/ ReturnHealth

SpecHealth == InitHealthOnly /\ [][NextHealth]_vars

\* One evaluation of a cluster of EdgeSnapshots.
InitHealthEdge ==
    /\ configMaps = {}
    /\ pods = {}
    /\ snap \in EdgeSnapshots
    /\ costIn = NoCostInput
    /\ InitInv

SpecHealthEdge == InitHealthEdge /\ [][NextHealth]_vars

\* A smaller family of clusters, for the specifications with more interleaving.
SmallSnapshots ==
    { Snapshot(n, ps, r) :
        n \in { l \in NodeLists :
                  \/ Len(l) = 0
                  \/ Len(l) = 2 /\ l[1].conditions = NodeShapes[1]
                                /\ l[2].conditions = NodeShapes[2] },
        ps \in { l \in HealthPodLists :
                   \/ Len(l) = 0
                   \/ Len(l) = 2 /\ l[1].containers = HealthPodShapes[1].containers
                                 /\ l[2].containers = HealthPodShapes[2].containers },
        r \in { DegradedRest, [DegradedRest EXCEPT !.kubeSystem = KubeSystemEtcdPending] } }

InitSmallHealth ==
    /\ configMaps = {}
    /\ pods = {}
    /\ snap \in SmallSnapshots
    /\ costIn = NoCostInput
    /\ InitInv

\* Up to MaxRuns evaluations of the same cluster, one after the other.
NextHealthRepeat ==
    \/ BeginHealth(MaxRuns)
    \/ CheckNode
    \/ CheckPod
    \/ CheckControlPlane
    \/ CheckNetwork
    \/ CheckResourceUsage
    \/ CheckComponentStatuses
    \/ CheckNamespace
    \/ IdentifyIssues
    \/ CalculateScore
    \/ ReturnHealth

SpecHealthRepeat == InitSmallHealth /\ [][NextHealthRepeat]_vars

\* One collection of the cluster's resources.
NextCollect ==
    \/ BeginCollect
    \/ GetNodes
    \/ GetPods
    \/ ListNodeMetrics
    \/ ListPodMetrics
    \/ ReturnResources

SpecCollect == InitHealthOnly /\ [][NextCollect]_vars

\* The read-side operations, each called once, in any interleaving.
NextReadOnly ==
    \/ NextHealth
    \/ NextCollect
    \/ GenerateOptimizationReport

SpecReadOnly == InitSmallHealth /\ [][NextReadOnly]_vars

\* The cost of one node, priced and attributed to its resident pods.
InitCostOnly ==
    /\ configMaps = {}
    /\ pods = {}
    /\ snap = EmptySnapshot
    /\ costIn \in CostInputs
    /\ InitInv

NextCost ==
    \/ ResolvePriceStep
    \/ ComputeNodeCost
    \/ AttributePodCosts

SpecCost == InitCostOnly /\ [][NextCost]_vars

(***************************************************************************)
(* Properties of CleanupUnusedResources                                    *)
(***************************************************************************)
\* The resource a recommendation names, and the one a Delete call names.
RecRes(r) == <<r.ResourceType, r.Namespace, r.Name>>
CallRes(c) == <<c.kind, c.ns, c.name>>

Range(f) == { f[i] : i \in DOMAIN f }

\* How many recommendations of the invocation name the resource.
NumRecs(p, kind, ns, name) ==
    Cardinality({ i \in DOMAIN recommendations[p] :
                    RecRes(recommendations[p][i]) = <<kind, ns, name>> })

\* Some pod of the ConfigMap's own namespace references it by a volume or an env source.
Referenced(cm, ps) ==
    \E pod \in ps : pod.ns = cm.ns /\ (cm.name \in pod.vols \/ cm.name \in pod.envs)

Terminal(pod) == pod.phase \in {PodFailed, PodSucceeded}

Succeeded(p) == pc[p] = "done" /\ err[p] = ""

\* C1: a successful invocation returns the recommendations it computed, and in
\* apply mode the returned resources are those a deletion was issued for.
C1_ReturnsComputed ==
    \A p \in Procs :
        Succeeded(p) =>
            /\ returned[p] = recommendations[p]
            /\ ~dryRun[p] =>
                 { RecRes(r) : r \in Range(returned[p]) }
                     = { CallRes(c) : c \in Range(deleteCalls[p]) }

\* C2: a dry-run invocation issues no Delete call and leaves the cluster's
\* ConfigMaps and pods as they were when it began.
C2_DryRunMutatesNothing ==
    \A p \in Procs :
        (pc[p] # "idle" /\ dryRun[p]) =>
            /\ deleteCalls[p] = <<>>
            /\ configMaps = atStart[p].configMaps
            /\ pods = atStart[p].pods

\* A dry run that has flagged a ConfigMap and a pod and is done.
C2_Witness ==
    /\ Succeeded(1) /\ dryRun[1]
    /\ \E r \in Range(recommendations[1]) : r.ResourceType = "ConfigMap"
    /\ \E r \in Range(recommendations[1]) : r.ResourceType = "Pod"

\* Resource, count and reason of each recommendation, in order (not its Age).
Proj(recs) == [ i \in DOMAIN recs |->
                  <<recs[i].ResourceType, recs[i].Namespace, recs[i].Name, recs[i].Reason>> ]

\* No terminal pod passed the retention threshold since the previous invocation began.
NoPodCameOfAge(p) ==
    \A pod \in pods :
        Terminal(pod) =>
            ((prev[p].began - pod.created > RetentionHours)
                <=> (now - pod.created > RetentionHours))

TwoDryRuns(p) ==
    /\ Succeeded(p) /\ dryRun[p]
    /\ prev[p].ran /\ prev[p].dryRun /\ prev[p].err = ""

\* The recommendations for ConfigMaps among `recs`, projected.
ConfigMapRecs(recs) == SelectSeq(Proj(recs), LAMBDA r : r[1] = "ConfigMap")

\* C3 as stated: two consecutive successful dry runs over an unchanged cluster
\* compute the same recommendations (same resources, same number of times,
\* same reasons), however much time passes between them.
C3_DryRunIdempotentWhatever ==
    \A p \in Procs :
        TwoDryRuns(p) => Proj(recommendations[p]) = Proj(prev[p].recommendations)

\* C3: two consecutive successful dry runs leave the cluster unchanged and
\* compute the same recommendations for ConfigMaps; they compute the same
\* recommendations altogether (same resources, same number of times, same
\* reasons) when no terminal pod passed the retention threshold meanwhile.
C3_DryRunIdempotent ==
    \A p \in Procs :
        TwoDryRuns(p) =>
            /\ configMaps = atStart[p].configMaps /\ pods = atStart[p].pods
            /\ ConfigMapRecs(recommendations[p]) = ConfigMapRecs(prev[p].recommendations)
            /\ NoPodCameOfAge(p) => Proj(recommendations[p]) = Proj(prev[p].recommendations)

\* Two dry runs done, with time passed between them, each flagging a ConfigMap and a pod.
C3_Witness ==
    /\ TwoDryRuns(1)
    /\ now > prev[1].began
    /\ NoPodCameOfAge(1)
    /\ \E r \in Range(recommendations[1]) : r.ResourceType = "ConfigMap"
    /\ \E r \in Range(recommendations[1]) : r.ResourceType = "Pod"
    /\ Len(prev[1].recommendations) >= 2

\* C4: a ConfigMap is flagged, once and with the reason "Not referenced by any
\* pod", exactly when no pod of its own namespace references it by a volume or
\* an env source; what pods of other namespaces reference does not count.
C4_UnusedConfigMaps ==
    \A p \in Procs :
        Succeeded(p) =>
            /\ \A cm \in CMUniverse :
                  NumRecs(p, "ConfigMap", cm.ns, cm.name)
                      = IF cm \in atStart[p].configMaps /\ ~Referenced(cm, atStart[p].pods)
                        THEN 1 ELSE 0
            /\ \A r \in Range(recommendations[p]) :
                  r.ResourceType = "ConfigMap" => r.Reason = "Not referenced by any pod"

\* ns1/a is flagged although a pod of ns2 references a ConfigMap named "a", and
\* ns2/a, which that pod references, is not.
C4_Witness ==
    /\ Succeeded(1)
    /\ CM("ns1", "a") \in atStart[1].configMaps
    /\ CM("ns2", "a") \in atStart[1].configMaps
    /\ \E pod \in atStart[1].pods : pod.ns = "ns2" /\ "a" \in pod.envs
    /\ \E pod \in atStart[1].pods : pod.ns = "ns1"
    /\ NumRecs(1, "ConfigMap", "ns1", "a") = 1
    /\ NumRecs(1, "ConfigMap", "ns2", "a") = 0

\* C5: a pod is flagged exactly when its phase is Failed or Succeeded and its
\* age is strictly more than the retention threshold, and only such pods get a
\* Delete call.
C5_StalePods ==
    \A p \in Procs :
        /\ Succeeded(p) =>
              \A pod \in atStart[p].pods :
                  NumRecs(p, "Pod", pod.ns, pod.name)
                      = IF Terminal(pod) /\ now - pod.created > RetentionHours THEN 1 ELSE 0
        /\ \A c \in Range(deleteCalls[p]) :
              c.kind = "Pod" =>
                  \E pod \in atStart[p].pods :
                      /\ pod.ns = c.ns /\ pod.name = c.name
                      /\ Terminal(pod) /\ now - pod.created > RetentionHours

\* An apply run done: a succeeded pod aged exactly the threshold is kept, a
\* failed pod one hour older is flagged and deleted.
C5_Witness ==
    /\ Succeeded(1) /\ ~dryRun[1]
    /\ \E pod \in atStart[1].pods :
          /\ pod.phase = PodSucceeded /\ now - pod.created = RetentionHours
          /\ NumRecs(1, "Pod", pod.ns, pod.name) = 0
          /\ pod \in pods
    /\ \E pod \in atStart[1].pods :
          /\ pod.phase = PodFailed /\ now - pod.created = RetentionHours + 1
          /\ NumRecs(1, "Pod", pod.ns, pod.name) = 1
          /\ pod \notin pods

\* The resources the invocation has to flag, from the cluster it began with.
Flagged(p) ==
    { <<"ConfigMap", cm.ns, cm.name>> :
        cm \in { c \in atStart[p].configMaps : ~Referenced(c, atStart[p].pods) } }
    \cup
    { <<"Pod", pod.ns, pod.name>> :
        pod \in { q \in atStart[p].pods :
                    Terminal(q) /\ now - q.created > RetentionHours } }

\* C6: an apply run whose listings succeeded ends without an error and has
\* issued a Delete call for every flagged resource, whichever of the calls failed.
C6_BestEffortDeletion ==
    \A p \in Procs :
        (pc[p] = "done" /\ ~dryRun[p] /\ ~retNil[p]) =>
            /\ err[p] = ""
            /\ { CallRes(c) : c \in Range(deleteCalls[p]) } = Flagged(p)
            /\ Len(deleteCalls[p]) = Cardinality(Flagged(p))

\* An apply run done whose first Delete call failed and a later one succeeded.
C6_Witness ==
    /\ pc[1] = "done" /\ ~dryRun[1] /\ err[1] = ""
    /\ Len(deleteCalls[1]) >= 3
    /\ ~deleteCalls[1][1].ok
    /\ \E i \in 2..Len(deleteCalls[1]) : deleteCalls[1][i].ok
    /\ \E i \in 2..Len(deleteCalls[1]) : ~deleteCalls[1][i].ok

\* C7: no Delete call is issued once the invocation's context is cancelled.
C7_NoDeleteAfterCancel ==
    \A p \in Procs :
        \A c \in Range(deleteCalls[p]) : ~c.ctxDone

\* C8: two concurrent apply runs never both issue a Delete call for the same resource.
C8_NoSharedDeletion ==
    \A c1 \in Range(deleteCalls[1]), c2 \in Range(deleteCalls[2]) :
        CallRes(c1) # CallRes(c2)

(***************************************************************************)
(* Properties of GetClusterHealth                                          *)
(***************************************************************************)
Primary == {"node", "pod"}

\* C9: once the node listing or the pod listing has failed, GetClusterHealth has
\* returned an error and no ClusterHealth, and the failed check is the last
\* thing it called: no later check, no issue pass, no score.
C9_PrimaryFailureFatal ==
    (hfailed \cap Primary # {}) =>
        /\ hpc = "done"
        /\ hret = "nil"
        /\ herr # ""
        /\ checksRun \in {<<"node">>, <<"node", "pod">>}
        /\ checksRun[Len(checksRun)] \in hfailed
        /\ health.HealthScore = 0 /\ health.Issues = {}

\* The pod listing failed after the node check had filled its status.
C9_Witness ==
    /\ hpc = "done"
    /\ "pod" \in hfailed
    /\ health.NodeStatus.TotalNodes = 2
    /\ herr = "pod health check failed"

\* C10: when the node and pod listings succeeded, GetClusterHealth ends by
\* returning the ClusterHealth and no error, having run every check, the issue
\* pass and the score calculation, whichever of the secondary checks failed.
C10_SecondaryFailureDegraded ==
    /\ (hpc = "done" /\ hfailed \cap Primary = {}) =>
          /\ hret = "health"
          /\ herr = ""
          /\ checksRun = Steps
    /\ (hpc # "done" /\ hpc # "idle") => (hret = "none" /\ checksRun \in Seq(Range(Steps)))
    /\ (hpc \notin {"idle", "node", "pod", "done"}) => hfailed \cap Primary = {}

\* Every secondary check failed and the ClusterHealth was returned all the same.
C10_Witness ==
    /\ hpc = "done"
    /\ hret = "health"
    /\ hfailed = {"controlPlane", "network", "resourceUsage", "componentStatuses", "namespace"}
    /\ health.NodeStatus.TotalNodes = 2
    /\ health.PodStatus.TotalPods = 1

(***************************************************************************)
(* Properties of the health score                                          *)
(***************************************************************************)
Categories == {"node", "pod", "controlPlane", "network", "resourceUsage"}

\* The categories whose failure is not fatal.
Degradable == {"controlPlane", "network", "resourceUsage"}

\* The weight of a category, in hundredths.
Weight(c) ==
    CASE c = "node" -> 30
      [] c = "pod" -> 25
      [] c = "controlPlane" -> 25
      [] OTHER -> 10

\* The category's sub-score, in hundredths of a point.
SubScore(c, h) ==
    CASE c = "node" -> NodeScore(h.NodeStatus)
      [] c = "pod" -> PodScore(h.PodStatus)
      [] c = "controlPlane" -> ControlPlaneScore(h.ControlPlaneStatus)
      [] c = "network" -> NetworkScore(h.NetworkStatus)
      [] OTHER -> ResourceScore(h.ResourceUsage)

RECURSIVE SumOver(_, _, _)
SumOver(cs, h, weighted) ==
    IF cs = {} THEN 0
    ELSE LET c == CHOOSE x \in cs : TRUE
         IN  (IF weighted THEN Weight(c) * SubScore(c, h) ELSE Weight(c))
                 + SumOver(cs \ {c}, h, weighted)

\* The weighted sum over the categories that are not unknown, the weights
\* renormalized over them, rounded to a whole point.
RenormalizedScore(h, unknown) ==
    LET avail == Categories \ unknown
        w == SumOver(avail, h, FALSE)
    IN  (SumOver(avail, h, TRUE) + 50 * w) \div (100 * w)

\* C11: in the ClusterHealth returned, a category whose check failed is left out
\* of the weighted sum, the weights renormalized over the others, and a failed
\* resource-usage check does not leave a cluster CPU or memory utilization of 0.
C11_FailedCategoryUnknown ==
    (hpc = "done" /\ hret = "health") =>
        /\ ("resourceUsage" \in hfailed) =>
              /\ health.ResourceUsage.ClusterCPUUsage # 0
              /\ health.ResourceUsage.ClusterMemoryUsage # 0
        /\ health.HealthScore = RenormalizedScore(health, hfailed \cap Degradable)

\* C12: at every step of an evaluation, whatever the cluster holds and
\* whichever checks failed, each sub-score of the ClusterHealth lies between 0
\* and 100 points and so does the composite score.
C12_ScoresInRange ==
    /\ \A c \in Categories : SubScore(c, health) \in 0..10000
    /\ health.HealthScore \in 0..100
    /\ (hpc \in {"return", "done"} /\ hret # "nil") =>
          calculateHealthScore(health) \in 0..100

\* A returned report of a cluster with a node under pressure and a crash-looping
\* pod, two checks having failed, scored strictly between the bounds.
C12_Witness ==
    /\ hpc = "done"
    /\ hret = "health"
    /\ {"network", "resourceUsage"} \subseteq hfailed
    /\ health.NodeStatus.MemoryPressureNodes > 0
    /\ Len(health.PodStatus.CrashLoopingPods) > 0
    /\ health.HealthScore \in 1..99

\* The probe of the API server answered: it is either counted healthy or slow
\* (a probe that fails does so within the second).
ProbeAnswered(h) ==
    h.ControlPlaneStatus.APIServerHealthy \/ h.ControlPlaneStatus.APIServerLatency >= 1000

\* C13: two evaluations of the same cluster, in which the same checks could be
\* evaluated and the probe answered, return the same score, however long the
\* probe took.
C13_ScorePure ==
    (/\ hpc = "done" /\ hret = "health"
     /\ hprev.ran /\ hprev.ret = "health"
     /\ hprev.failed = hfailed
     /\ ProbeAnswered(health) /\ ProbeAnswered(hprev.health)) =>
        health.HealthScore = hprev.health.HealthScore

\* The conditions a node that is not ready may report.
NotReadyShapes ==
    { <<[type |-> NodeReady, status |-> ConditionFalse]>>,
      <<[type |-> NodeReady, status |-> ConditionFalse],
        [type |-> NodeMemoryPressure, status |-> ConditionTrue]>>,
      <<[type |-> NodeReady, status |-> "Unknown"],
        [type |-> NodeDiskPressure, status |-> ConditionTrue],
        [type |-> NodePIDPressure, status |-> ConditionTrue]>> }

\* The ClusterHealth `h` had the cluster held one more node, with `conds`.
WithNode(h, conds) ==
    [h EXCEPT !.NodeStatus =
        checkNodeHealth(ZeroNodeStatus,
                        Append(snap.nodes, [name |-> NodeNames[Len(snap.nodes) + 1],
                                            conditions |-> conds]))]

\* C14: for the cluster with one more node that is not ready, the node check
\* gives a Node sub-score that is not higher, and the evaluation, whichever
\* other checks failed, a composite score not higher than the one returned.
C14_NotReadyNodeMonotone ==
    /\ (hpc = "pod") =>
          \A conds \in NotReadyShapes :
              NodeScore(WithNode(health, conds).NodeStatus) <= NodeScore(health.NodeStatus)
    /\ (hpc = "done" /\ hret = "health") =>
          \A conds \in NotReadyShapes :
              LET h2 == WithNode(health, conds)
              IN  /\ NodeScore(h2.NodeStatus) <= NodeScore(health.NodeStatus)
                  /\ calculateHealthScore(h2) <= health.HealthScore

\* A report of a cluster with no node, two checks having failed: one node that
\* is not ready would lower both the Node sub-score and the score returned.
C14_Witness ==
    /\ hpc = "done"
    /\ hret = "health"
    /\ snap.nodes = <<>>
    /\ {"network", "resourceUsage"} \subseteq hfailed
    /\ \A conds \in NotReadyShapes :
          /\ NodeScore(WithNode(health, conds).NodeStatus) < NodeScore(health.NodeStatus)
          /\ calculateHealthScore(WithNode(health, conds)) < health.HealthScore

\* Whether the node reports a condition of one of the types with status True.
Reports(node, types) ==
    \E k \in DOMAIN node.conditions :
        node.conditions[k].type \in types /\ node.conditions[k].status = ConditionTrue

ReadyIn(nodes) == Cardinality({ i \in DOMAIN nodes : Reports(nodes[i], {NodeReady}) })

PressuredIn(nodes) == Cardinality({ i \in DOMAIN nodes : Reports(nodes[i], PressureTypes) })

\* 100 x ready/total less 5 points for each node under pressure, floored at 0,
\* and 100 without nodes; in hundredths of a point.
ExpectedNodeScore(nodes) ==
    IF Len(nodes) = 0 THEN 10000
    ELSE Max(0, ((10000 * ReadyIn(nodes)) \div Len(nodes)) - 500 * PressuredIn(nodes))

\* One of three nodes is not ready and under memory pressure, the others are
\* ready and under none.
ScenarioB(nodes) ==
    /\ Len(nodes) = 3
    /\ ReadyIn(nodes) = 2
    /\ PressuredIn(nodes) = 1
    /\ \E i \in DOMAIN nodes :
          ~Reports(nodes[i], {NodeReady}) /\ Reports(nodes[i], {NodeMemoryPressure})

\* C15: the Node sub-score of the status the node check filled is the formula
\* over the cluster's nodes, a node under several pressure conditions counted
\* once; and the score returned for one of three nodes not ready and under
\* memory pressure, every other sub-score at 100, is 88 or 89.
C15_NodeScoreFormula ==
    /\ (hpc = "pod" \/ (hpc = "done" /\ hret = "health")) =>
          NodeScore(health.NodeStatus) = ExpectedNodeScore(snap.nodes)
    /\ (/\ hpc = "done" /\ hret = "health"
        /\ ScenarioB(snap.nodes)
        /\ \A c \in Categories \ {"node"} : SubScore(c, health) = 10000) =>
          health.HealthScore \in {88, 89}

\* The report of such a cluster, every other category at 100.
C15_Witness ==
    /\ hpc = "done"
    /\ hret = "health"
    /\ ScenarioB(snap.nodes)
    /\ \A c \in Categories \ {"node"} : SubScore(c, health) = 10000
    /\ health.HealthScore \in {88, 89}

(***************************************************************************)
(* Properties of the cost computation                                      *)
(***************************************************************************)
RECURSIVE SumSeq(_)
SumSeq(s) == IF s = <<>> THEN 0 ELSE Head(s) + SumSeq(Tail(s))

Abs(x) == IF x < 0 THEN 0 - x ELSE x

\* The costs attributed to the node's pods add up to the node's cost, to
\* within one millionth of a dollar for each pod.
SumsToNode == Abs(SumSeq(costOut.podCosts) - costOut.nodeCost) <= Len(costIn.pods)

\* C16 as stated: for every node, whatever pods are resident on it, the costs
\* attributed to them add up to the node's cost.
C16_SumToNodeEveryNode == (costOut.pc = "done") => SumsToNode

\* C16, amended: for every node with at least one resident pod, whatever mix of
\* pods with a request, with only usage and with neither, the costs attributed
\* add up to the node's cost within the rounding tolerance; a node without
\* resident pods has nothing attributed.
C16_SumToNodeWithPods ==
    (costOut.pc = "done") =>
        /\ Len(costOut.podCosts) = Len(costIn.pods)
        /\ (costIn.pods # <<>>) => SumsToNode
        /\ (costIn.pods = <<>>) => SumSeq(costOut.podCosts) = 0

\* A node whose three pods are one of each kind, its whole cost attributed.
C16_Witness ==
    /\ costOut.pc = "done"
    /\ Len(costIn.pods) = 3
    /\ \E i \in 1..3 : costIn.pods[i].request > 0
    /\ \E i \in 1..3 : costIn.pods[i].request = 0 /\ costIn.pods[i].usage > 0
    /\ \E i \in 1..3 : costIn.pods[i].request = 0 /\ costIn.pods[i].usage = 0
    /\ costOut.nodeCost > 0
    /\ SumsToNode

\* C17: once resolved, the price of each resource type is the instance type's
\* price when the config lists one for the node's instance type, else the
\* default, times the region's multiplier, 1.0 for a region the config does
\* not list; a config with only defaults gives the defaults unmultiplied; a
\* price is resolved for every type and no error is raised.
C17_PricingPrecedence ==
    (costOut.pc # "idle") =>
        LET pr == costIn.pricing
            n == costIn.node
            listed == n.instanceType \in DOMAIN pr.instanceTypes
            m == IF n.region \in DOMAIN pr.regionMultipliers
                 THEN pr.regionMultipliers[n.region] ELSE 100
        IN  /\ DOMAIN costOut.prices = ResourceTypes
            /\ costOut.err = ""
            /\ \A t \in ResourceTypes :
                  /\ (listed /\ t \in DOMAIN pr.instanceTypes[n.instanceType]) =>
                        costOut.prices[t] = pr.instanceTypes[n.instanceType][t] * m
                  /\ ~(listed /\ t \in DOMAIN pr.instanceTypes[n.instanceType]) =>
                        costOut.prices[t] = pr.defaults[t] * m
                  /\ (pr = PricingDefaultsOnly) => costOut.prices[t] = pr.defaults[t] * 100

\* The cpu price of a c5.large node in an unlisted region is the instance
\* type's, its memory price the default, both unmultiplied.
C17_Witness ==
    /\ costOut.pc = "done"
    /\ costIn.pricing = PricingFull
    /\ costIn.node.instanceType = "c5.large"
    /\ costIn.node.region = "mars-1"
    /\ costOut.prices["cpu"] = 35000
    /\ costOut.prices["memory"] = 4000

(***************************************************************************)
(* Properties of the read-side operations                                  *)
(***************************************************************************)
\* C18: a collection in which a listing of nodes or pods failed returns an
\* error; one in which only a listing of node metrics or pod metrics failed
\* returns the resources, with the nodes and the pods of the cluster, and no
\* error.
C18_OnlyEnumerationFatal ==
    (rpc = "done") =>
        /\ (rres.failed \cap {"nodes", "pods"} # {}) => (rres.ret = "nil" /\ rres.err # "")
        /\ (rres.failed # {} /\ rres.failed \subseteq {"nodeMetrics", "podMetrics"}) =>
              /\ rres.ret = "resources"
              /\ rres.err = ""
              /\ rres.resources.nodes = snap.nodes
              /\ rres.resources.pods = snap.pods

\* C19: the health evaluation, the resource collection and the report generation
\* issue list and get requests only, and no step of them changes the cluster's
\* objects.
C19_ReadSideChangesNothing ==
    /\ [](\A r \in issued : r.verb \in ReadVerbs)
    /\ [][snap' = snap /\ configMaps' = configMaps /\ pods' = pods]_vars

\* The three operations have returned, over a cluster that has nodes and pods.
C19_Witness ==
    /\ hpc = "done" /\ hret = "health"
    /\ rpc = "done" /\ rres.ret = "resources"
    /\ report.returned
    /\ snap.nodes # <<>> /\ snap.pods # <<>>
    /\ \E r \in issued : r.resource = "networkpolicies"

\* The pods of the list with a container restarted more than five times.
RestartingIn(ps) ==
    Cardinality({ i \in DOMAIN ps :
                    \E k \in DOMAIN ps[i].containers : ps[i].containers[k].restartCount > 5 })

\* C20: in the status the pod check filled, no pod is named twice in
\* CrashLoopingPods and RestartingPods is the number of pods with a container
\* restarted more than five times.
C20_PenaltiesPerPod ==
    (hpc = "controlPlane" \/ (hpc = "done" /\ hret = "health")) =>
        /\ \A i \in DOMAIN health.PodStatus.CrashLoopingPods :
              \A j \in DOMAIN health.PodStatus.CrashLoopingPods :
                  i # j => health.PodStatus.CrashLoopingPods[i] # health.PodStatus.CrashLoopingPods[j]
        /\ health.PodStatus.RestartingPods = RestartingIn(snap.pods)

(***************************************************************************)
(* Properties of the single checks                                         *)
(***************************************************************************)
\* The network check has returned, each of its requests answered.
NetworkChecked ==
    /\ "network" \in Range(checksRun)
    /\ CheckOf(hpc) # "network"
    /\ "network" \notin hfailed
    /\ hpc # "panicked"

\* C21: once the network check has run with its requests answered, IngressHealthy
\* is true exactly when every ingress-controller deployment listed has as many
\* ready replicas as desired (a deployment with fewer, with more, or with no
\* desired count makes it false), and the check never stops the evaluation.
C21_IngressReadyEqualsDesired ==
    /\ hpc # "panicked"
    /\ NetworkChecked =>
          (health.NetworkStatus.IngressHealthy
              <=> \A i \in DOMAIN snap.network.ing.deployments :
                      LET d == snap.network.ing.deployments[i]
                      IN  d.replicas # <<>> /\ d.ready = d.replicas[1])

\* The answer of the probe, told by the latency recorded.
ProbeOf(h) == CHOOSE pr \in Probes : pr.ms = h.ControlPlaneStatus.APIServerLatency

\* Every pod of the component in the kube-system listing is Running (which a
\* listing without a pod of the component satisfies).
PodsRunning(part) ==
    \A i \in DOMAIN snap.kubeSystem :
        Contains(snap.kubeSystem[i].name, part) => snap.kubeSystem[i].phase = PodRunning

\* The control-plane check has returned.
ControlPlaneChecked == "controlPlane" \in Range(checksRun) /\ hpc # "controlPlane.list"

\* C22: once the control-plane check has returned, OverallHealthy is true exactly
\* when the probe succeeded in under a second and every listed pod of the
\* controller-manager, the scheduler, etcd and coredns is Running, a component
\* without a listed pod counting as having its pods Running; and it is false
\* when the kube-system listing failed.
C22_OverallHealthy ==
    ControlPlaneChecked =>
        IF "controlPlane" \in hfailed
        THEN ~health.ControlPlaneStatus.OverallHealthy
        ELSE health.ControlPlaneStatus.OverallHealthy
                <=> /\ ProbeOf(health).ok /\ ProbeOf(health).ms < 1000
                    /\ \A part \in {"kube-controller-manager", "kube-scheduler", "etcd", "coredns"} :
                          PodsRunning(part)

\* The control plane reported healthy over a listing without a scheduler pod,
\* and the evaluation returned.
C22_Witness ==
    /\ hpc = "done" /\ hret = "health"
    /\ health.ControlPlaneStatus.OverallHealthy
    /\ snap.kubeSystem # <<>>
    /\ \A i \in DOMAIN snap.kubeSystem : ~Contains(snap.kubeSystem[i].name, "kube-scheduler")
    /\ \E i \in DOMAIN snap.kubeSystem : snap.kubeSystem[i].name = "coredns-5d78c9869d-y"

\* The node check has filled its status.
NodeChecked == "node" \in Range(checksRun) /\ "node" \notin hfailed

\* C25: once the node check has succeeded, ReadyNodes and each of the four
\* pressure counters lie between 0 and TotalNodes, the number of nodes listed,
\* also when a node's condition list holds a condition type more than once.
C25_NodeCountersBounded ==
    NodeChecked =>
        LET ns == health.NodeStatus
        IN  /\ ns.TotalNodes = Len(snap.nodes)
            /\ \A f \in {"ReadyNodes", "MemoryPressureNodes", "DiskPressureNodes",
                          "PIDPressureNodes", "NetworkUnavailableNodes"} :
                  ns[f] \in 0..ns.TotalNodes

\* The pod check has filled its status.
PodChecked == "pod" \in Range(checksRun) /\ "pod" \notin hfailed

RECURSIVE SumFun(_, _)
SumFun(f, keys) ==
    IF keys = {} THEN 0
    ELSE LET k == CHOOSE x \in keys : TRUE IN f[k] + SumFun(f, keys \ {k})

\* C24: once the pod check has succeeded, the five phase counters add up to
\* TotalPods, the number of pods listed; UnknownPods counts the pods whose phase
\* is none of Running, Pending, Succeeded and Failed, the empty phase included;
\* and PodsPerNode adds up to the number of pods that have a node.
C24_PhaseCountersPartition ==
    PodChecked =>
        LET ps == health.PodStatus
        IN  /\ ps.TotalPods = Len(snap.pods)
            /\ ps.RunningPods + ps.PendingPods + ps.SucceededPods + ps.FailedPods
                    + ps.UnknownPods = ps.TotalPods
            /\ ps.UnknownPods =
                    Cardinality({ i \in DOMAIN snap.pods :
                        snap.pods[i].phase \notin {PodRunning, PodPending, PodSucceeded, PodFailed} })
            /\ \A n \in DOMAIN ps.PodsPerNode : n # ""
            /\ SumFun(ps.PodsPerNode, DOMAIN ps.PodsPerNode) =
                    Cardinality({ i \in DOMAIN snap.pods : snap.pods[i].nodeName # "" })

\* The report of a cluster of two pods, one with an empty phase and no node, one
\* with a phase the switch does not name.
C24_Witness ==
    /\ hpc = "done" /\ hret = "health"
    /\ health.PodStatus.TotalPods = 2
    /\ health.PodStatus.UnknownPods = 2
    /\ \E i \in DOMAIN snap.pods : snap.pods[i].phase = "" /\ snap.pods[i].nodeName = ""
    /\ \E i \in DOMAIN snap.pods : snap.pods[i].phase = "Terminating"
    /\ SumFun(health.PodStatus.PodsPerNode, DOMAIN health.PodStatus.PodsPerNode) = 1

(***************************************************************************)
(* Further properties of CleanupUnusedResources                            *)
(***************************************************************************)
\* C23: an invocation one of whose two listings failed has returned an error
\* and a nil list, has issued no Delete call and has left the cluster as it
\* was, in either mode; an invocation that returned no error had both its
\* listings answered.
C23_ListingFailureAborts ==
    \A p \in Procs :
        /\ (pc[p] \in {"listConfigMaps", "listPods"}) => deleteCalls[p] = <<>>
        /\ (pc[p] = "done" /\ err[p] # "") =>
              /\ err[p] \in {"failed to list configmaps", "failed to list pods"}
              /\ retNil[p]
              /\ returned[p] = <<>>
              /\ deleteCalls[p] = <<>>
              /\ configMaps = atStart[p].configMaps /\ pods = atStart[p].pods
        /\ (pc[p] = "done" /\ err[p] = "") =>
              /\ ~retNil[p]
              /\ Range(cmItems[p]) = atStart[p].configMaps
              /\ Range(podItems[p]) = atStart[p].pods

\* An apply run over a cluster with a ConfigMap no pod references and a stale
\* pod, ended by the failure of the pod listing.
C23_Witness ==
    /\ pc[1] = "done" /\ ~dryRun[1]
    /\ err[1] = "failed to list pods"
    /\ retNil[1]
    /\ \E cm \in Range(cmItems[1]) : ~Referenced(cm, pods)
    /\ \E pod \in pods : Terminal(pod) /\ now - pod.created > RetentionHours

\* The recommendations name the resource.
Names(recs, kind, ns, name) == \E r \in Range(recs) : RecRes(r) = <<kind, ns, name>>

\* The previous invocation was a successful apply run and nothing it flagged
\* was in the cluster when this one began: each of its deletions succeeded.
AfterCleanApply(p) ==
    /\ prev[p].ran /\ ~prev[p].dryRun /\ prev[p].err = ""
    /\ \A r \in Range(prev[p].recommendations) :
          IF r.ResourceType = "ConfigMap"
          THEN ~\E c \in atStart[p].configMaps : c.ns = r.Namespace /\ c.name = r.Name
          ELSE ~\E q \in atStart[p].pods : q.ns = r.Namespace /\ q.name = r.Name

\* C26: a successful run flags no ConfigMap that a pod of the cluster it began
\* with references, whatever the pod's phase and also when the run flags that
\* pod as stale; and a run that follows a successful one flags every ConfigMap
\* that is still there and that no pod still there references, among them
\* those the run before left because of a pod it deleted.
C26_StalePodReferencesCount ==
    \A p \in Procs :
        Succeeded(p) =>
            \A cm \in atStart[p].configMaps :
                /\ (\E pod \in atStart[p].pods :
                        /\ pod.ns = cm.ns /\ (cm.name \in pod.vols \/ cm.name \in pod.envs)
                        /\ Names(recommendations[p], "Pod", pod.ns, pod.name))
                      => ~Names(recommendations[p], "ConfigMap", cm.ns, cm.name)
                /\ Referenced(cm, atStart[p].pods)
                      => ~Names(recommendations[p], "ConfigMap", cm.ns, cm.name)
                /\ (prev[p].ran /\ prev[p].err = "" /\ ~Referenced(cm, atStart[p].pods))
                      => Names(recommendations[p], "ConfigMap", cm.ns, cm.name)

\* A dry run that follows an apply run all of whose deletions succeeded: the
\* apply run flagged and deleted the stale pod ns1/p1 and left the ConfigMap
\* ns1/a that only this pod referenced, and the dry run flags ns1/a.
C26_Witness ==
    /\ Succeeded(1) /\ dryRun[1]
    /\ AfterCleanApply(1)
    /\ Names(prev[1].recommendations, "Pod", "ns1", "p1")
    /\ ~Names(prev[1].recommendations, "ConfigMap", "ns1", "a")
    /\ Names(prev[1].recommendations, "ConfigMap", "ns1", "b")
    /\ Names(recommendations[1], "ConfigMap", "ns1", "a")
    /\ ~Names(recommendations[1], "ConfigMap", "ns1", "b")

\* C27: no step removes from the cluster a ConfigMap that a pod existing in its
\* namespace at that moment references, also when the pod was created after the
\* run listed the pods.
C27_NoReferencedConfigMapDeleted ==
    [][\A cm \in configMaps \ configMaps' : ~Referenced(cm, pods)]_vars

=============================================================================
